---- MODULE Spec2Model ----
(***************************************************************************)
(* ZeroGraph (src/src/index.ts): the node lifecycle prep -> exec (with     *)
(* retry and fallback) -> post, and the Flow orchestrator that walks the   *)
(* successor tables on per-step shallow copies of the wired nodes.         *)
(*                                                                         *)
(* Objects live in a heap indexed by reference.  The wired nodes are the   *)
(* references n1, n2, n3; the orchestrator's per-step copy lives under the *)
(* reference "copy".  A node object's successors field is a reference to a *)
(* successor table, so a shallow copy shares the table with its original.  *)
(* User code (the bodies of prep/exec/execFallback/post) is the            *)
(* environment: whether an exec attempt throws, and which label a test     *)
(* node's post returns, are chosen nondeterministically.                   *)
(* The wait between attempts (wait > 0) changes no state; the history      *)
(* keeps it as an entry of its own.                                        *)
(* A Flow wired as a node of another Flow is a heap object with a          *)
(* startNode field; while its inner traversal runs, the locals of the      *)
(* outer _orch wait on a stack.                                            *)
(*                                                                         *)
(* SpecBF runs a batch flow (BatchFlow, AsyncBatchFlow or                  *)
(* AsyncParallelBatchFlow): its prep returns a list of parameter sets and  *)
(* one traversal is made per set, by the same steps as any traversal.      *)
(* The traversals of the parallel flow are coroutines: one runs at a time, *)
(* it may yield where it awaits an AsyncNode's phase, and its locals wait  *)
(* in ctx until it is resumed.                                             *)
(*                                                                         *)
(* SpecBN runs one batch node (BatchNode, AsyncBatchNode or                *)
(* AsyncParallelBatchNode) directly: prep returns a list of items, every   *)
(* item gets its own call of the inherited _exec, and post receives the    *)
(* collected results.  For the parallel node the calls are interleaved at  *)
(* their awaits; an exec attempt is recorded when it completes.            *)
(*                                                                         *)
(* SpecW builds the graph by calls of the wiring API (next, pipe,          *)
(* action(...).next) on tables that start empty, and then runs a flow,     *)
(* with or without a start node, or runs the first node directly.          *)
(* What the engine writes to console.warn is kept in warnings.             *)
(* SpecWF is SpecW with the steps of a started run taken (weak fairness):  *)
(* every phase returns or throws.                                          *)
(***************************************************************************)
EXTENDS Integers, Sequences, FiniteSets, TLC

\* ---------------------------------------------------------------- bounds
\* largest maxRetries a node is constructed with
MaxRetriesBound == 2
\* node executions one traversal may perform before the model stops it
MaxSteps == 7
\* run() calls made on the same flow or node
MaxRuns == 2
\* longest item list a batch node's prep returns
MaxItems == 2

\* ---------------------------------------------------------------- values
Nodes == {"n1", "n2", "n3", "n4"}
NoNode == "null"
CopySlot == "copy"
\* the per-step copy made by the second traversal of a batch flow
CopySlot2 == "copy2"
\* the per-step copy made by the _orch of a nested flow
SubCopySlot == "subcopy"
\* the built-in Object function, which every plain object inherits as its
\* "constructor" property
ObjectCtor == "Object"
Refs == Nodes \cup {CopySlot, CopySlot2, SubCopySlot, ObjectCtor}

Undef == <<"undefined">>
Val(n, c) == <<"val", n, c>>
Str(s) == <<"str", s>>
Err(n, c) == <<"err", n, c>>
FallbackVal(n) == <<"fallback", n>>
CustomErr(n) == <<"customErr", n>>
\* the value of the stateful node's counter field
Count(c) == <<"count", c>>
UseRunAsyncErr == <<"err", "Use runAsync.">>
PhaseErr(n, ph) == <<"err", n, ph>>
NotIterableErr == <<"TypeError", "items is not iterable">>
NotAFunctionErr == <<"TypeError", "curr.setParams is not a function">>

EmptyParams == <<>>
FlowParamsSet == [run |-> "p"]

\* the batch flow of the translation scenario: its own params, and the
\* parameter sets its prep returns
BaseParams == [lang |-> "en", run |-> "p"]
ParamSets == <<[lang |-> "fr"], [lang |-> "de"]>>
\* translateText(text, lang)
Translation(text) == <<"translated", text>>
\* what a batch flow hands to its post as the exec result
Null == "null"

\* what console.warn is called with
OverwriteWarning(action) == <<"Overwriting successor for action", action>>
NodeRunWarning(kind) ==
  <<"Node won't run successors.",
    IF kind = "AsyncNode" THEN "Use AsyncFlow." ELSE "Use Flow.">>
FlowEndsWarning(action, keys) == <<"Flow ends: not found in", action, keys>>

\* labels the test nodes' post may return (tests/index.test.ts), and a
\* string that no wiring registers
TestLabels == {"default", "success", "failure", "constructor"}
Labels == TestLabels \cup {"search", "decide", "answer", "continue", "done"}

\* what post returns when it returns no label: nothing (undefined), null or
\* the empty string; the first two are no strings and are written as tags
NoLabel == "undefined"
Falsy == {"", Null, NoLabel}

\* the labels that name a property every object literal inherits from
\* Object.prototype (one of them is modelled)
ProtoKeys == {"constructor"}

\* ------------------------------------------------------------ the graphs
NoSucc == [l \in Labels |-> NoNode]

\* no call of the wiring API has been made
NoCall ==
  [form |-> "none", recv |-> NoNode, node |-> NoNode, action |-> "default",
   before |-> NoSucc, value |-> NoNode]

\* conditional.next(success, 'success'); conditional.next(failure, 'failure')
CondWiring ==
  [n \in Nodes |->
     IF n = "n1" THEN [NoSucc EXCEPT !["success"] = "n2", !["failure"] = "n3"]
     ELSE NoSucc]

\* first.next(second, 'success'); second.next(third) -- a chain
ChainWiring ==
  [n \in Nodes |->
     IF n = "n1" THEN [NoSucc EXCEPT !["success"] = "n2"]
     ELSE IF n = "n2" THEN [NoSucc EXCEPT !["default"] = "n3"]
     ELSE NoSucc]

\* decide.next(search,'search'); decide.next(answer,'answer'); search.next(decide,'decide')
AgentWiring ==
  [n \in Nodes |->
     IF n = "n1" THEN [NoSucc EXCEPT !["search"] = "n2", !["answer"] = "n3"]
     ELSE IF n = "n2" THEN [NoSucc EXCEPT !["decide"] = "n1"]
     ELSE NoSucc]

\* loop.next(process,'continue'); process.next(loop,'default'); loop.next(end,'done')
LoopWiring ==
  [n \in Nodes |->
     IF n = "n1" THEN [NoSucc EXCEPT !["continue"] = "n2", !["done"] = "n3"]
     ELSE IF n = "n2" THEN [NoSucc EXCEPT !["default"] = "n1"]
     ELSE NoSucc]

\* counter.next(counter): the stateful node, executed repeatedly by a flow
CounterWiring ==
  [n \in Nodes |->
     IF n = "n1" THEN [NoSucc EXCEPT !["default"] = "n1"] ELSE NoSucc]

\* inner = new Flow(n2) with n2.next(n3, 'success'); outer = new Flow(inner)
\* with inner.next(n4, 'success')
NestedWiring ==
  [n \in Nodes |->
     IF n = "n1" THEN [NoSucc EXCEPT !["success"] = "n4"]
     ELSE IF n = "n2" THEN [NoSucc EXCEPT !["success"] = "n3"]
     ELSE NoSucc]

Graphs == {"cond", "chain", "agent", "loop", "counter", "nested"}

Wiring(g) ==
  CASE g = "cond"  -> CondWiring
    [] g = "chain" -> ChainWiring
    [] g = "agent" -> AgentWiring
    [] g = "loop"  -> LoopWiring
    [] g = "counter" -> CounterWiring
    [] g = "nested" -> NestedWiring

\* the class (prototype) of each wired node
ClassOf(g, n) ==
  CASE g \in {"cond", "chain"} -> "Test"
    [] g = "agent" -> (IF n = "n1" THEN "Decide" ELSE IF n = "n2" THEN "Search" ELSE "Answer")
    [] g = "loop"  -> (IF n = "n1" THEN "Loop" ELSE "Plain")
    [] g = "counter" -> "Counter"
    [] g = "nested" -> (IF n = "n1" THEN "Flow" ELSE "Test")

\* new XNode(maxRetries): a node object after construction
NewNode(n, cls, kind, k, fb) ==
  [id |-> n, cls |-> cls, kind |-> kind, fallback |-> fb,
   params |-> EmptyParams, successors |-> n,
   maxRetries |-> k, curRetry |-> 0, iterations |-> 0, count |-> 0,
   startNode |-> NoNode, wait |-> 0]

\* new XNode(maxRetries, wait): the second argument of the constructor
WithWait(obj, w) == [obj EXCEPT !.wait = w]

\* new Flow(start) / new AsyncFlow(start): a flow object after construction
NewFlow(n, kind, start) ==
  [id |-> n, cls |-> "Flow", kind |-> kind, fallback |-> "default",
   params |-> EmptyParams, successors |-> n,
   maxRetries |-> 0, curRetry |-> 0, iterations |-> 0, count |-> 0,
   startNode |-> start, wait |-> 0]

\* the built-in function as a heap object: it has no own enumerable fields
\* and none of BaseNode's methods
BuiltinObj ==
  [id |-> ObjectCtor, cls |-> "Function", kind |-> "Function", fallback |-> "default",
   params |-> EmptyParams, successors |-> ObjectCtor,
   maxRetries |-> 0, curRetry |-> 0, iterations |-> 0, count |-> 0,
   startNode |-> NoNode, wait |-> 0]

\* ----------------------------------------------------------------- state
VARIABLES
  graph,       \* which wiring was built
  mode,        \* "flow": flow.run / flow.runAsync, "node": node.run / node.runAsync
  flowKind,    \* "Flow" or "AsyncFlow"
  flowParams,  \* the flow's own params field
  heap,        \* reference -> node object
  succTable,   \* successor table reference -> (label -> node reference)
  shared,      \* the Shared Context of the current run
  pc,          \* position of the run
  curr,        \* _orch's curr: reference of the object being executed
  p,           \* _orch's p: the run parameters of this traversal
  lastAction,  \* _orch's lastAction
  prepRes,     \* _run's p
  execRes,     \* _run's e
  i,           \* AsyncNode._exec's loop variable
  exc,         \* the error caught by _exec's catch
  error,       \* the error the run threw to its caller
  result,      \* the label the run returned to its caller
  trace,       \* history: the user-code calls of the current run, in order
  calls,       \* history: exec calls made in the current run
  steps,       \* history: node executions started in the current run
  runs,        \* run() calls made so far
  heapAtRun,   \* history: the heap when the current run was called
  stack,       \* the locals of the _orch calls that wait for a nested flow
  cycles,      \* batch node: per item, the state of its super._exec call
  paramSets,   \* batch flow: the list of parameter sets its prep returned
  tid,         \* batch flow: the traversal that is running (0: none)
  ctx,         \* batch flow: per traversal, its state and its waiting locals
  startNode,   \* the flow's startNode field
  call,        \* history: the last call of the wiring API and what it returned
  warnings,    \* history: what the last API call has written to console.warn
  entry        \* the method the caller runs with: "run" or "runAsync"

vars == <<graph, mode, flowKind, flowParams, heap, succTable, shared, pc, curr, p,
          lastAction, prepRes, execRes, i, exc, error, result, trace, calls,
          steps, runs, heapAtRun, stack, cycles, paramSets, tid, ctx,
          startNode, call, warnings, entry>>

\* what belongs to the traversals of a batch flow
travVars == <<paramSets, tid, ctx>>

\* what the wiring API and the Flow constructor set, and what the caller has
\* chosen before the run
wireVars == <<startNode, call, entry>>

Keys == {"n1", "n2", "n3", "n4", "searchResults", "answer", "fr", "de"}
FreshShared == [k \in Keys |-> Undef]

\* The configurations the runs start from: a wiring, its node classes, the
\* flow kind and node kind, the nodes' maxRetries and whether their class
\* overrides execFallback.  The example graphs use the default constructor;
\* the test node that is run directly is also constructed with a wait.
Init ==
  /\ graph \in Graphs
  /\ mode \in {"flow", "node"}
  /\ flowKind \in {"Flow", "AsyncFlow"}
  /\ \E kind \in {"Node", "AsyncNode"}, k \in 0..MaxRetriesBound,
        fb \in {"default", "custom"}, w \in {0, 1} :
       /\ w > 0 => mode = "node" /\ graph = "cond"
       /\ graph \in {"agent", "loop"} =>
            kind = "Node" /\ k = 1 /\ fb = "default" /\ flowKind = "Flow" /\ mode = "flow"
       /\ graph = "counter" =>
            kind = "Node" /\ k = 1 /\ fb = "default" /\ flowKind = "Flow"
       /\ graph = "nested" => k = 1 /\ fb = "default" /\ mode = "flow"
       /\ mode = "node" => flowKind = "Flow" /\ graph \in {"cond", "counter"}
       /\ entry = IF mode = "flow" THEN (IF flowKind = "Flow" THEN "run" ELSE "runAsync")
                  ELSE (IF kind = "AsyncNode" THEN "runAsync" ELSE "run")
       /\ heap = [r \in Refs |->
                    IF r \in Nodes
                      THEN IF ClassOf(graph, r) = "Flow"
                             THEN NewFlow(r, flowKind, "n2")
                             ELSE WithWait(NewNode(r, ClassOf(graph, r), kind, k, fb), w)
                      ELSE BuiltinObj]
  /\ succTable = Wiring(graph)
  /\ flowParams = EmptyParams
  /\ shared = FreshShared
  /\ pc = "idle"
  /\ curr = NoNode
  /\ p = EmptyParams
  /\ lastAction = "default"
  /\ prepRes = Undef
  /\ execRes = Undef
  /\ i = 0
  /\ exc = Undef
  /\ error = Undef
  /\ result = "default"
  /\ trace = <<>>
  /\ calls = 0
  /\ steps = 0
  /\ runs = 0
  /\ heapAtRun = heap
  /\ stack = <<>>
  /\ cycles = <<>>
  /\ paramSets = <<>>
  /\ tid = 0
  /\ ctx = <<>>
  /\ startNode = "n1"
  /\ call = NoCall
  /\ warnings = <<>>


\* ------------------------------------------------------------- user code
\* an exec that is handed the Shared Context as well
CallArgsExecShared(ev, pr, x) ==
  CASE ev = "prep" -> <<shared>>
    [] ev = "exec" -> <<shared, pr>>
    [] ev = "fallback" -> <<pr, x>>
    [] ev = "post" -> <<shared, pr, x>>
    [] ev = "wait" -> <<>>

\* the arguments of the call: this.prep(shared), this.exec(prepRes),
\* this.execFallback(prepRes, e), this.post(shared, p, e)
CallArgs(ev, pr, x) ==
  CASE ev = "prep" -> <<shared>>
    [] ev = "exec" -> <<pr>>
    [] ev = "fallback" -> <<pr, x>>
    [] ev = "post" -> <<shared, pr, x>>
    [] ev = "wait" -> <<>>

\* One entry of the history: which user-code phase ran on which node (or
\* that _exec waited, ev = "wait", which calls no user code), the
\* prep result it was given or produced (pr), the exec result or caught error
\* it was given (x), what it returned or threw (out, threw), the curRetry
\* field of the executing object at the call (cur), and the returned label;
\* and what the call could read: the traversal it belongs to (tr), the
\* params field of the executing object, and the local i of AsyncNode._exec;
\* and the arguments the engine passed (args).
Event(ev, n, pr, x, out, threw, cur, label) ==
  [ev |-> ev, node |-> n, pr |-> pr, x |-> x, out |-> out, threw |-> threw,
   cur |-> cur, label |-> label,
   tr |-> tid, params |-> heap[curr].params, i |-> i,
   args |-> CallArgs(ev, pr, x)]

\* prep(shared): BaseNode's default returns undefined; the test and example
\* nodes return what they read from the Shared Context at this visit.
PrepResult(obj, step) ==
  IF obj.cls \in {"Plain", "Loop"} THEN Undef
  ELSE IF obj.cls = "Translate" THEN <<"text", obj.params.lang>>
  ELSE <<"prep", obj.id, step>>

\* what a call of prep or post of this class may throw: nothing, unless the
\* class calls a collaborator there ("Fragile"), which may throw on entry
PhaseThrows(obj, ph) ==
  IF obj.cls = "Fragile" THEN {PhaseErr(obj.id, ph)} ELSE {}

\* exec(prepRes), call number c: BaseNode's default returns undefined; the
\* decide node returns "search" or "answer"; the search node returns a list
\* of results; any exec that calls a collaborator may throw.
ExecOutcomes(obj, c) ==
  CASE obj.cls \in {"Plain", "Loop"} -> {[threw |-> FALSE, out |-> Undef]}
    [] obj.cls = "Counter" -> {[threw |-> FALSE, out |-> Count(obj.count + 1)]}
    [] obj.cls = "Translate" ->
         {[threw |-> FALSE, out |-> Translation(prepRes)],
          [threw |-> TRUE, out |-> Err(obj.id, c)]}
    [] obj.cls = "Decide" ->
         {[threw |-> FALSE, out |-> Str("search")],
          [threw |-> FALSE, out |-> Str("answer")],
          [threw |-> TRUE, out |-> Err(obj.id, c)]}
    [] obj.cls = "Search" ->
         {[threw |-> FALSE, out |-> <<Val(obj.id, c)>>],
          [threw |-> TRUE, out |-> Err(obj.id, c)]}
    [] OTHER ->
         {[threw |-> FALSE, out |-> Val(obj.id, c)],
          [threw |-> TRUE, out |-> Err(obj.id, c)]}

\* CounterNode.exec: this.count++
ExecCount(obj) ==
  IF obj.cls = "Counter" THEN obj.count + 1 ELSE obj.count

\* a fallback that swallows the error and returns undefined
ExecFallbackSwallow(pr, e) == [threw |-> FALSE, out |-> Undef]

\* Node.execFallback: throw exc
ExecFallbackDefault(pr, e) == [threw |-> TRUE, out |-> e]

\* execFallback(prepRes, exc): the default, or an override that returns a
\* sentinel value or throws an error of its own
FallbackOutcomes(obj, pr, e) ==
  IF obj.fallback = "default" THEN {ExecFallbackDefault(pr, e)}
  ELSE {[threw |-> FALSE, out |-> FallbackVal(obj.id)],
        [threw |-> TRUE, out |-> CustomErr(obj.id)]}

\* new results put in front of the old ones
SearchPrepend(old, er) == er \o (IF old = Undef THEN <<>> ELSE old)

\* shared.searchResults = (shared.searchResults || []).concat(execRes)
SearchConcat(old, er) == (IF old = Undef THEN <<>> ELSE old) \o er

\* post is handed a copy of the Shared Context: its writes are lost
PostWriteLost(obj, sh, er) == sh

\* the Shared Context after post(shared, prepRes, execRes) of this class
PostWrite(obj, sh, er) ==
  CASE obj.cls \in {"Test", "Greeting", "Fragile"} -> [sh EXCEPT ![obj.id] = er]
    [] obj.cls = "Search" -> [sh EXCEPT !["searchResults"] = SearchConcat(@, er)]
    [] obj.cls = "Answer" -> [sh EXCEPT !["answer"] = er]
    [] obj.cls = "Translate" -> [sh EXCEPT ![obj.params.lang] = er]
    [] OTHER -> sh

\* the object ps with ps[key] = v stored in it
ParamsPut(ps, key, v) ==
  [k \in (DOMAIN ps) \cup {key} |-> IF k = key THEN v ELSE ps[k]]

\* the params object after post: a node of the class that marks the object
\* it is bound to (this.params.seen = true) has written into it
PostParams(obj) ==
  IF obj.cls = "Tamper" THEN ParamsPut(obj.params, "seen", TRUE) ELSE obj.params

\* LoopNode.post: this.iterations++
PostIterations(obj) ==
  IF obj.cls = "Loop" THEN obj.iterations + 1 ELSE obj.iterations

\* the labels post may return: BaseNode's default 'default'; a test node any
\* of its labels; a node whose post returns no label (README GreetingNode:
\* no return statement) undefined, null or ''; the decide node its exec result; the loop node by counter
PostLabels(obj, er) ==
  CASE obj.cls = "Test"   -> TestLabels
    [] obj.cls = "Greeting" -> Falsy
    [] obj.cls = "Decide" -> {IF er[1] = "str" THEN er[2] ELSE "default"}
    [] obj.cls = "Search" -> {"decide"}
    [] obj.cls = "Loop"   -> {IF PostIterations(obj) < 3 THEN "continue" ELSE "done"}
    [] OTHER -> {"default"}

\* ---------------------------------------------------------------- engine
\* a loop bound that is one attempt short
ExecLoopCondShort(idx, max) == idx < max - 1

\* Node._exec's loop condition: this.curRetry < this.maxRetries
ExecLoopCond(idx, max) == idx < max

\* a retry loop that never waits
WaitsNever(obj) == FALSE

\* if (this.wait > 0)
Waits(obj) == obj.wait > 0

\* a last-attempt test that is never true inside the loop
IsLastAttemptNever(idx, max) == idx = max

\* Node._exec's catch: this.curRetry === this.maxRetries - 1
IsLastAttempt(idx, max) == idx = max - 1

\* a loop that reads the curRetry field in AsyncNode as well
LoopIdxField(obj) == obj.curRetry

\* the loop variable of _exec: the curRetry field in Node, the local i in AsyncNode
LoopIdx(obj) == IF obj.kind = "AsyncNode" THEN i ELSE obj.curRetry

\* a flow post that keeps BaseNode's default
FlowPostDefault(sh, pr, er) == "default"

\* Flow.post / AsyncFlow.postAsync: return execRes
FlowPost(sh, pr, er) == er

\* table[key] on an object literal: the own property when the key was
\* registered, else the property inherited from Object.prototype, else undefined
PropertyGet(table, key) ==
  IF table[key] # NoNode THEN table[key]
  ELSE IF key \in ProtoKeys THEN ObjectCtor
  ELSE NoNode

\* a lookup that ignores the returned label
GetNextDefaultOnly(c, action) == PropertyGet(succTable[heap[c].successors], "default")

\* a lookup that finds the node itself, whatever is registered
GetNextStays(c, action) == heap[c].id

\* action || 'default'
OrDefault(action) == IF action \in Falsy THEN "default" ELSE action

\* a lookup that finds nothing for a label that is no label
GetNextFalsyEnds(c, action) ==
  IF action \in Falsy THEN NoNode
  ELSE PropertyGet(succTable[heap[c].successors], action)

\* Flow.getNextNode: curr.successors[action || 'default'], or null
GetNextNode(c, action) ==
  PropertyGet(succTable[heap[c].successors], OrDefault(action))

\* a table that never shows its keys
OwnKeysNone(table) == {}

\* Object.keys(table): the labels a successor is registered under
OwnKeys(table) == {l \in DOMAIN table : table[l] # NoNode}

\* the class that defines the method the caller runs with: run is
\* BaseNode's, runAsync is AsyncNode's
EntryClass == IF entry = "runAsync" THEN "AsyncNode" ELSE "Node"

\* run / runAsync: if (Object.keys(this.successors).length > 0) console.warn(...)
RunWarnings(obj) ==
  IF OwnKeys(succTable[obj.successors]) # {} THEN <<NodeRunWarning(EntryClass)>> ELSE <<>>

\* a warning for every unmatched label but 'default'
GetNextWarningsByLabel(c, action) ==
  IF GetNextNode(c, action) = NoNode /\ action # "default"
    THEN <<FlowEndsWarning(action, OwnKeys(succTable[heap[c].successors]))>>
    ELSE <<>>

\* Flow.getNextNode: if (!next && Object.keys(curr.successors).length > 0)
\* console.warn(...)
GetNextWarnings(c, action) ==
  IF GetNextNode(c, action) = NoNode /\ OwnKeys(succTable[heap[c].successors]) # {}
    THEN <<FlowEndsWarning(action, OwnKeys(succTable[heap[c].successors]))>>
    ELSE <<>>

\* a traversal that starts without a label
FirstActionNone == Null

\* let lastAction: ActionType = 'default'
FirstAction == "default"

\* no copy: the orchestrator works on the wired node itself
CopyRefAlias(n) == n

\* Object.assign(Object.create(Object.getPrototypeOf(node)), node): the
\* one object shared by the traversals of a batch flow
CopyRefShared(n) == CopySlot

\* reference of the new object the own fields of node are copied into (one
\* object is alive per _orch / _orchAsync call in progress)
CopyRef(n) ==
  IF stack # <<>> THEN SubCopySlot
  ELSE IF tid = 2 THEN CopySlot2
  ELSE CopySlot

\* the heap after the copy of node n has been made
HeapWithCopy(h, n) == [h EXCEPT ![CopyRef(n)] = h[n]]

\* { ...this.params }
SpreadParams(ps) == ps

\* a nested flow whose subgraph is never entered
StartOfNone(obj) == NoNode

\* this.startNode
StartOf(obj) == obj.startNode

\* which orchestrator runs the current traversal: the top-level flow's own
\* (_orch for Flow and BatchFlow, _orchAsync for AsyncFlow and its batch
\* subclasses); a nested flow is run through Flow._run, which calls _orch
OrchKind ==
  IF stack = <<>> /\ flowKind \in {"AsyncFlow", "AsyncBatchFlow", "AsyncParallelBatchFlow"}
    THEN "AsyncFlow" ELSE "Flow"

\* an error leaves every _orch call in progress
Unwind(at) == IF at = "thrown" THEN <<>> ELSE stack

\* what the catch block of _exec does after a failed attempt that was not
\* the last one: it waits this.wait seconds if wait > 0 (a busy loop in
\* Node, a timer that is awaited in AsyncNode)
WaitAfter(obj, pr, idx) ==
  IF Waits(obj)
    THEN <<Event("wait", obj.id, pr, Undef, Undef, FALSE, idx, "")>>
    ELSE <<>>

\* an AsyncNode that the synchronous path runs like any node
SyncRunThrowsNever(obj) == FALSE

\* AsyncNode._run: throw new Error('Use runAsync.')
SyncRunThrows(obj) == obj.kind = "AsyncNode"

\* a throw of prep or post is handed to execFallback
PhaseThrowToFallback(ph) == "fallback"

\* where a throw of prep or post goes: _run and _runAsync call them outside
\* any try, so the throw leaves _run, _orch and the run
PhaseThrowTo(ph) == "thrown"

\* the error a run ends with: a promise that has been rejected keeps its
\* first reason
FirstError(e) == IF error # Undef THEN error ELSE e

Running == pc \notin {"idle", "done", "thrown"}

\* BaseNode.setParams on the flow, between runs
FlowSetParams ==
  /\ ~Running /\ mode = "flow" /\ flowParams = EmptyParams
  /\ flowParams' = FlowParamsSet
  /\ UNCHANGED <<graph, mode, flowKind, wireVars, warnings, travVars, cycles, stack, heap, succTable, shared, pc, curr, p,
                 lastAction, prepRes, execRes, i, exc, error, result, trace,
                 calls, steps, runs, heapAtRun>>

\* what every run() call resets: a fresh Shared Context and fresh locals
RunBegins ==
  /\ ~Running /\ runs < MaxRuns
  /\ runs' = runs + 1
  /\ shared' = FreshShared
  /\ trace' = <<>> /\ calls' = 0 /\ heapAtRun' = heap
  /\ prepRes' = Undef /\ execRes' = Undef /\ exc' = Undef
  /\ result' = "default" /\ lastAction' = FirstAction /\ i' = 0
  /\ stack' = <<>>

\* flow.run(shared) / flow.runAsync(shared) up to the while of _orch: no
\* warning (nothing is registered behind the flow itself), the flow's prep
\* (default), the copy of the start node if there is one, p and lastAction
RunFlow ==
  /\ mode = "flow"
  /\ RunBegins
  /\ error' = Undef
  /\ warnings' = <<>>
  /\ IF startNode = NoNode
       THEN curr' = NoNode /\ heap' = heap
       ELSE curr' = CopyRef(startNode) /\ heap' = HeapWithCopy(heap, startNode)
  /\ p' = SpreadParams(flowParams)
  /\ steps' = 0
  /\ pc' = "orch"
  /\ UNCHANGED <<graph, mode, flowKind, wireVars, travVars, cycles, flowParams, succTable>>

\* node.run(shared) / asyncNode.runAsync(shared): the warning, then _run or
\* _runAsync on the node itself; run on an AsyncNode is BaseNode.run, which
\* calls AsyncNode._run, and that throws
RunNode ==
  /\ mode = "node"
  /\ RunBegins
  /\ warnings' = RunWarnings(heap["n1"])
  /\ curr' = "n1"
  /\ steps' = 1
  /\ IF entry = "run" /\ SyncRunThrows(heap["n1"])
       THEN pc' = "thrown" /\ error' = UseRunAsyncErr
       ELSE pc' = "prep" /\ error' = Undef
  /\ UNCHANGED <<graph, mode, flowKind, wireVars, travVars, cycles, flowParams, succTable, heap, p>>

\* _orch's while (curr): curr.setParams(p), then curr._run(shared); an
\* object that is no node has no setParams, and the call throws a TypeError;
\* under _orch an AsyncNode's _run throws, under _orchAsync it is run by
\* _runAsync; a flow object is no AsyncNode and is run by Flow._run
OrchStep ==
  /\ pc = "orch" /\ curr # NoNode /\ steps < MaxSteps
  /\ IF heap[curr].kind = "Function"
       THEN heap' = heap /\ steps' = steps /\ pc' = "thrown"
            /\ error' = FirstError(NotAFunctionErr)
       ELSE /\ heap' = [heap EXCEPT ![curr].params = p]
            /\ steps' = steps + 1
            /\ IF heap[curr].cls = "Flow"
                 THEN pc' = "subflow" /\ error' = error
                 ELSE IF OrchKind = "Flow" /\ SyncRunThrows(heap[curr])
                   THEN pc' = "thrown" /\ error' = FirstError(UseRunAsyncErr)
                   ELSE pc' = "prep" /\ error' = error
  /\ stack' = Unwind(pc')
  /\ UNCHANGED <<graph, mode, flowKind, wireVars, warnings, travVars, cycles, flowParams, succTable, shared, curr, p,
                 lastAction, prepRes, execRes, i, exc, result, trace, calls,
                 runs, heapAtRun>>

\* _orch's while ends: return lastAction, which the flow's post returns
OrchEnd ==
  /\ pc = "orch" /\ curr = NoNode /\ stack = <<>>
  /\ result' = FlowPost(shared, Undef, lastAction)
  /\ pc' = "done"
  /\ UNCHANGED <<graph, mode, flowKind, wireVars, warnings, travVars, cycles, stack, flowParams, heap, succTable, shared, curr,
                 p, lastAction, prepRes, execRes, i, exc, error, trace, calls,
                 steps, runs, heapAtRun>>

\* Flow._run on a flow object: this.prep(shared) (the default), then the call
\* of this._orch(shared); the caller's locals wait
SubFlowRun ==
  /\ pc = "subflow"
  /\ stack' = Append(stack, [curr |-> curr, p |-> p, lastAction |-> lastAction])
  /\ pc' = "start"
  /\ UNCHANGED <<graph, mode, flowKind, wireVars, warnings, travVars, cycles, flowParams, heap, succTable, shared, curr,
                 p, lastAction, prepRes, execRes, i, exc, error, result, trace,
                 calls, steps, runs, heapAtRun>>

\* the first lines of the nested _orch: the copy of this.startNode,
\* p = { ...this.params }, lastAction = 'default'
OrchStart ==
  /\ pc = "start"
  /\ LET this == stack[Len(stack)].curr
         start == StartOf(heap[this])
     IN /\ IF start = NoNode
             THEN curr' = NoNode /\ heap' = heap
             ELSE curr' = CopyRef(start) /\ heap' = HeapWithCopy(heap, start)
        /\ p' = SpreadParams(heap[this].params)
  /\ lastAction' = FirstAction
  /\ pc' = "orch"
  /\ UNCHANGED <<graph, mode, flowKind, wireVars, warnings, travVars, cycles, stack, flowParams, succTable, shared,
                 prepRes, execRes, i, exc, error, result, trace, calls, steps,
                 runs, heapAtRun>>

\* the nested _orch returns lastAction, Flow._run returns what the flow's
\* post makes of it, and the caller's _orch takes that as its lastAction
SubFlowReturn ==
  /\ pc = "orch" /\ curr = NoNode /\ stack # <<>>
  /\ LET frame == stack[Len(stack)] IN
       /\ lastAction' = FlowPost(shared, Undef, lastAction)
       /\ curr' = frame.curr
       /\ p' = frame.p
  /\ stack' = SubSeq(stack, 1, Len(stack) - 1)
  /\ pc' = "next"
  /\ UNCHANGED <<graph, mode, flowKind, wireVars, warnings, travVars, cycles, flowParams, heap, succTable, shared,
                 prepRes, execRes, i, exc, error, result, trace, calls, steps,
                 runs, heapAtRun>>

\* _run: const p = this.prep(shared); a throw of prep leaves _run
Prep ==
  /\ pc = "prep"
  /\ \/ /\ prepRes' = PrepResult(heap[curr], steps)
        /\ trace' = Append(trace, Event("prep", heap[curr].id, prepRes', Undef, prepRes',
                                        FALSE, heap[curr].curRetry, ""))
        /\ pc' = "execInit" /\ error' = error
     \/ \E e \in PhaseThrows(heap[curr], "prep") :
          /\ prepRes' = prepRes
          /\ trace' = Append(trace, Event("prep", heap[curr].id, prepRes, Undef, e,
                                          TRUE, heap[curr].curRetry, ""))
          /\ pc' = PhaseThrowTo("prep") /\ error' = FirstError(e)
  /\ stack' = Unwind(pc')
  /\ UNCHANGED <<graph, mode, flowKind, wireVars, warnings, travVars, cycles, flowParams, heap, succTable, shared, curr,
                 p, lastAction, execRes, i, exc, result, calls, steps,
                 runs, heapAtRun>>

\* _exec's for header: the loop variable is set to 0 and tested once
ExecInit ==
  /\ pc = "execInit"
  /\ IF heap[curr].kind = "AsyncNode"
       THEN i' = 0 /\ heap' = heap
       ELSE i' = i /\ heap' = [heap EXCEPT ![curr].curRetry = 0]
  /\ IF ExecLoopCond(0, heap[curr].maxRetries)
       THEN pc' = "exec" /\ execRes' = execRes
       ELSE pc' = "post" /\ execRes' = Undef
  /\ UNCHANGED <<graph, mode, flowKind, wireVars, warnings, travVars, cycles, stack, flowParams, succTable, shared, curr, p,
                 lastAction, prepRes, exc, error, result, trace, calls, steps,
                 runs, heapAtRun>>

\* one iteration of _exec's for: try exec(prepRes); on a throw, the last
\* attempt goes to execFallback, any other one increments the loop variable
ExecAttempt ==
  /\ pc = "exec"
  /\ \E o \in ExecOutcomes(heap[curr], calls + 1) :
       LET obj == heap[curr]
           idx == LoopIdx(obj)
           counted == [heap EXCEPT ![curr].count = ExecCount(obj)]
       IN
       /\ calls' = calls + 1
       /\ trace' = Append(trace, Event("exec", obj.id, prepRes, Undef, o.out,
                                       o.threw, obj.curRetry, ""))
                    \o (IF o.threw /\ ~IsLastAttempt(idx, obj.maxRetries)
                          THEN WaitAfter(obj, prepRes, idx) ELSE <<>>)
       /\ IF ~o.threw
            THEN /\ execRes' = o.out /\ pc' = "post"
                 /\ heap' = counted
                 /\ UNCHANGED <<exc, i>>
            ELSE IF IsLastAttempt(idx, obj.maxRetries)
              THEN /\ exc' = o.out /\ pc' = "fallback"
                   /\ heap' = counted
                   /\ UNCHANGED <<execRes, i>>
              ELSE /\ IF obj.kind = "AsyncNode"
                        THEN i' = idx + 1 /\ heap' = counted
                        ELSE i' = i /\ heap' = [counted EXCEPT ![curr].curRetry = idx + 1]
                   /\ IF ExecLoopCond(idx + 1, obj.maxRetries)
                        THEN pc' = "exec" /\ execRes' = execRes
                        ELSE pc' = "post" /\ execRes' = Undef
                   /\ exc' = exc
  /\ UNCHANGED <<graph, mode, flowKind, wireVars, warnings, travVars, cycles, stack, flowParams, succTable, shared, curr, p,
                 lastAction, prepRes, error, result, steps, runs, heapAtRun>>

\* return this.execFallback(prepRes, e): its value is _exec's result, its
\* throw leaves _exec, _run and the whole run
Fallback ==
  /\ pc = "fallback"
  /\ \E o \in FallbackOutcomes(heap[curr], prepRes, exc) :
       /\ trace' = Append(trace, Event("fallback", heap[curr].id, prepRes, exc, o.out,
                                       o.threw, heap[curr].curRetry, ""))
       /\ IF o.threw
            THEN pc' = "thrown" /\ error' = FirstError(o.out) /\ execRes' = execRes
            ELSE pc' = "post" /\ error' = error /\ execRes' = o.out
  /\ stack' = Unwind(pc')
  /\ UNCHANGED <<graph, mode, flowKind, wireVars, warnings, travVars, cycles, flowParams, heap, succTable, shared, curr,
                 p, lastAction, prepRes, i, exc, result, calls, steps, runs,
                 heapAtRun>>

\* return this.post(shared, p, e): in a flow the label becomes lastAction,
\* in a direct run it is what run() returns; setParams stored the reference
\* p in the copy, so what post writes into this.params is written into the
\* object _orch's p names
\* a throw of post leaves _run before post has written anything
Post ==
  /\ pc = "post"
  /\ \/ /\ \E l \in PostLabels(heap[curr], execRes) :
             /\ trace' = Append(trace, Event("post", heap[curr].id, prepRes, execRes,
                                             Undef, FALSE, heap[curr].curRetry, l))
             /\ IF mode = "flow"
                  THEN lastAction' = l /\ pc' = "next" /\ result' = result
                  ELSE lastAction' = lastAction /\ pc' = "done" /\ result' = l
        /\ shared' = PostWrite(heap[curr], shared, execRes)
        /\ heap' = [heap EXCEPT ![curr].iterations = PostIterations(heap[curr]),
                                ![curr].params = PostParams(heap[curr])]
        /\ p' = IF mode = "flow" THEN PostParams(heap[curr]) ELSE p
        /\ error' = error
     \/ \E e \in PhaseThrows(heap[curr], "post") :
          /\ trace' = Append(trace, Event("post", heap[curr].id, prepRes, execRes, e,
                                          TRUE, heap[curr].curRetry, ""))
          /\ pc' = PhaseThrowTo("post") /\ error' = FirstError(e)
          /\ UNCHANGED <<lastAction, result, shared, heap, p>>
  /\ stack' = Unwind(pc')
  /\ UNCHANGED <<graph, mode, flowKind, wireVars, warnings, travVars, cycles, flowParams, succTable, curr, prepRes,
                 execRes, i, exc, calls, steps, runs, heapAtRun>>

\* curr = this.getNextNode(curr, lastAction); if (curr) curr = copy of curr
GetNext ==
  /\ pc = "next"
  /\ LET nx == GetNextNode(curr, lastAction) IN
       IF nx = NoNode
         THEN curr' = NoNode /\ heap' = heap
         ELSE curr' = CopyRef(nx) /\ heap' = HeapWithCopy(heap, nx)
  /\ warnings' = warnings \o GetNextWarnings(curr, lastAction)
  /\ pc' = "orch"
  /\ UNCHANGED <<graph, mode, flowKind, wireVars, travVars, cycles, stack, flowParams, succTable, shared, p,
                 lastAction, prepRes, execRes, i, exc, error, result, trace,
                 calls, steps, runs, heapAtRun>>

Next ==
  \/ FlowSetParams
  \/ RunFlow
  \/ RunNode
  \/ OrchStep
  \/ OrchEnd
  \/ SubFlowRun
  \/ OrchStart
  \/ SubFlowReturn
  \/ Prep
  \/ ExecInit
  \/ ExecAttempt
  \/ Fallback
  \/ Post
  \/ GetNext

Spec == Init /\ [][Next]_vars

TypeOK ==
  /\ pc \in {"idle", "orch", "subflow", "start", "prep", "execInit", "exec",
             "fallback", "post", "next", "done", "thrown"}
  /\ Len(stack) <= 1
  /\ curr \in Refs \cup {NoNode}
  /\ steps \in 0..MaxSteps
  /\ runs \in 0..MaxRuns


\* ----------------------------------------------------------- batch nodes
BatchKinds == {"BatchNode", "AsyncBatchNode", "AsyncParallelBatchNode"}

\* the j-th element of the list prep returns
Item(j) == <<"item", j>>

\* a slot of the result array that no value has been stored in yet
Pending == <<"pending">>

\* a batch node of one of the three classes, run directly; its class
\* overrides prep and exec ("Batch") or nothing at all ("Plain")
InitBN ==
  /\ graph = "batch"
  /\ mode = "node"
  /\ flowKind = "Flow"
  /\ \E cls \in {"Batch", "Plain"}, kind \in BatchKinds, k \in 0..MaxRetriesBound,
        fb \in {"default", "custom"}, w \in {0, 1} :
       /\ w > 0 => kind = "AsyncBatchNode" /\ cls = "Batch"
       /\ cls = "Plain" => k = 1 /\ fb = "default"
       /\ entry = (IF kind = "BatchNode" THEN "run" ELSE "runAsync")
       /\ heap = [r \in Refs |->
                    IF r \in Nodes THEN WithWait(NewNode(r, cls, kind, k, fb), w)
                    ELSE BuiltinObj]
  /\ succTable = [n \in Nodes |-> NoSucc]
  /\ flowParams = EmptyParams
  /\ shared = FreshShared
  /\ pc = "idle"
  /\ curr = NoNode
  /\ p = EmptyParams
  /\ lastAction = "default"
  /\ prepRes = Undef
  /\ execRes = Undef
  /\ i = 0
  /\ exc = Undef
  /\ error = Undef
  /\ result = "default"
  /\ trace = <<>>
  /\ calls = 0
  /\ steps = 0
  /\ runs = 0
  /\ heapAtRun = heap
  /\ stack = <<>>
  /\ cycles = <<>>
  /\ paramSets = <<>>
  /\ tid = 0
  /\ ctx = <<>>
  /\ startNode = "n1"
  /\ call = NoCall
  /\ warnings = <<>>

\* a loop that goes on from where the previous item's loop stopped
LoopStartKeep(obj) == obj.curRetry

\* the for header of _exec: this.curRetry = 0 / let i = 0
LoopStart(obj) == 0

\* one counter, the node's curRetry field, for the calls of all items
CycleIdxField(obj, j) == obj.curRetry

\* the loop variable of item j's _exec call: the node's curRetry field in
\* BatchNode, the call's local i in the asynchronous batch nodes
CycleIdx(obj, j) == IF obj.kind = "BatchNode" THEN obj.curRetry ELSE cycles[j].i

\* results stored in the order the calls complete
CollectInArrivalOrder(res, j, v) ==
  LET free == CHOOSE m \in 1..Len(res) :
                 res[m] = Pending /\ \A q \in 1..(m - 1) : res[q] # Pending
  IN [res EXCEPT ![free] = v]

\* the result of item j's call in the array post receives: map's j-th
\* element, the j-th push of the sequential loop, Promise.all's j-th value
Collect(res, j, v) == [res EXCEPT ![j] = v]

\* the fallback is called but its value is not returned
FallbackReturnNothing(v) == Undef

\* return this.execFallback(prepRes, e): the value is _exec's result
FallbackReturn(v) == v

\* every batch node starts its items the way map does
MayStartAsMap(obj, j) == \A m \in 1..(j - 1) : cycles[m].st # "new"

\* BatchNode and AsyncBatchNode call _exec for an item when the call for the
\* item before it has returned; AsyncParallelBatchNode's map calls it for
\* every item in turn
MayStart(obj, j) ==
  \A m \in 1..(j - 1) :
    IF obj.kind = "AsyncParallelBatchNode" THEN cycles[m].st # "new"
    ELSE cycles[m].st = "done"

\* the calls of AsyncParallelBatchNode go on after Promise.all has rejected
MayGoOn(obj) ==
  \/ pc = "bexec"
  \/ pc = "thrown" /\ obj.kind = "AsyncParallelBatchNode"

\* node.run(shared) / node.runAsync(shared) on the batch node
BatchRun ==
  /\ mode = "node" /\ runs = 0
  /\ RunBegins
  /\ error' = Undef
  /\ warnings' = RunWarnings(heap["n1"])
  /\ curr' = "n1"
  /\ steps' = 1
  /\ cycles' = <<>>
  /\ pc' = "bprep"
  /\ UNCHANGED <<graph, mode, flowKind, wireVars, travVars, flowParams, succTable, heap, p>>

\* BatchNode._exec maps (items || []); AsyncBatchNode._exec iterates items
\* and AsyncParallelBatchNode._exec calls items.map, with no guard
GuardsItems(obj) == obj.kind = "BatchNode"

\* prep / prepAsync returns the list of items, or undefined if the class does
\* not override it, and _exec is entered with what it returned: an undefined
\* that is not guarded is not iterable and has no map, and _exec throws
BatchPrep ==
  /\ pc = "bprep"
  /\ IF heap[curr].cls = "Plain"
       THEN /\ prepRes' = PrepResult(heap[curr], steps)
            /\ cycles' = <<>>
            /\ IF GuardsItems(heap[curr])
                 THEN execRes' = <<>> /\ pc' = "bexec" /\ error' = error
                 ELSE execRes' = execRes /\ pc' = "thrown" /\ error' = NotIterableErr
       ELSE /\ \E n \in 0..MaxItems :
                 /\ prepRes' = [j \in 1..n |-> Item(j)]
                 /\ cycles' = [j \in 1..n |-> [st |-> "new", i |-> 0, e |-> Undef]]
                 /\ execRes' = [j \in 1..n |-> Pending]
            /\ pc' = "bexec" /\ error' = error
  /\ trace' = Append(trace, Event("prep", heap[curr].id, prepRes', Undef, prepRes',
                                  FALSE, heap[curr].curRetry, ""))
  /\ UNCHANGED <<graph, mode, flowKind, wireVars, warnings, travVars, stack, flowParams, heap, succTable, shared,
                 curr, p, lastAction, i, exc, result, calls, steps, runs,
                 heapAtRun>>

\* super._exec(item) is called: the for header sets the loop variable and
\* tests it once
ItemStart(j) ==
  /\ pc = "bexec"
  /\ cycles[j].st = "new"
  /\ MayStart(heap[curr], j)
  /\ LET obj == heap[curr]
         first == LoopStart(obj)
     IN /\ heap' = IF obj.kind = "BatchNode"
                     THEN [heap EXCEPT ![curr].curRetry = first] ELSE heap
        /\ IF ExecLoopCond(first, obj.maxRetries)
             THEN /\ cycles' = [cycles EXCEPT ![j].st = "run", ![j].i = first]
                  /\ execRes' = execRes
             ELSE /\ cycles' = [cycles EXCEPT ![j].st = "done", ![j].i = first]
                  /\ execRes' = Collect(execRes, j, Undef)
  /\ UNCHANGED <<graph, mode, flowKind, wireVars, warnings, travVars, stack, flowParams, succTable, shared, pc,
                 curr, p, lastAction, prepRes, i, exc, error, result, trace,
                 calls, steps, runs, heapAtRun>>

\* one iteration of the for of item j's _exec call
ItemAttempt(j) ==
  /\ MayGoOn(heap[curr])
  /\ cycles[j].st = "run"
  /\ \E o \in ExecOutcomes(heap[curr], calls + 1) :
       LET obj == heap[curr]
           idx == CycleIdx(obj, j)
       IN
       /\ calls' = calls + 1
       /\ trace' = Append(trace, Event("exec", obj.id, prepRes[j], Undef, o.out,
                                       o.threw, idx, ""))
                    \o (IF o.threw /\ ~IsLastAttempt(idx, obj.maxRetries)
                          THEN WaitAfter(obj, prepRes[j], idx) ELSE <<>>)
       /\ IF ~o.threw
            THEN /\ cycles' = [cycles EXCEPT ![j].st = "done"]
                 /\ execRes' = Collect(execRes, j, o.out)
                 /\ heap' = heap
            ELSE IF IsLastAttempt(idx, obj.maxRetries)
              THEN /\ cycles' = [cycles EXCEPT ![j].st = "fb", ![j].e = o.out]
                   /\ execRes' = execRes
                   /\ heap' = heap
              ELSE /\ heap' = IF obj.kind = "BatchNode"
                                THEN [heap EXCEPT ![curr].curRetry = idx + 1] ELSE heap
                   /\ IF ExecLoopCond(idx + 1, obj.maxRetries)
                        THEN /\ cycles' = [cycles EXCEPT ![j].i = idx + 1]
                             /\ execRes' = execRes
                        ELSE /\ cycles' = [cycles EXCEPT ![j].st = "done", ![j].i = idx + 1]
                             /\ execRes' = Collect(execRes, j, Undef)
  /\ UNCHANGED <<graph, mode, flowKind, wireVars, warnings, travVars, stack, flowParams, succTable, shared, pc,
                 curr, p, lastAction, prepRes, i, exc, error, result, steps, runs,
                 heapAtRun>>

\* item j's execFallback / execFallbackAsync: its value is the item's
\* result; its throw leaves map or the sequential loop, or rejects Promise.all
ItemFallback(j) ==
  /\ MayGoOn(heap[curr])
  /\ cycles[j].st = "fb"
  /\ \E o \in FallbackOutcomes(heap[curr], prepRes[j], cycles[j].e) :
       /\ trace' = Append(trace, Event("fallback", heap[curr].id, prepRes[j],
                                       cycles[j].e, o.out, o.threw,
                                       CycleIdx(heap[curr], j), ""))
       /\ IF o.threw
            THEN /\ cycles' = [cycles EXCEPT ![j].st = "failed"]
                 /\ execRes' = execRes
                 /\ pc' = "thrown"
                 /\ error' = IF pc = "thrown" THEN error ELSE o.out
            ELSE /\ cycles' = [cycles EXCEPT ![j].st = "done"]
                 /\ execRes' = Collect(execRes, j, FallbackReturn(o.out))
                 /\ pc' = pc
                 /\ error' = error
  /\ UNCHANGED <<graph, mode, flowKind, wireVars, warnings, travVars, stack, flowParams, heap, succTable, shared,
                 curr, p, lastAction, prepRes, i, exc, result, calls, steps, runs,
                 heapAtRun>>

\* every item's call has returned: post / postAsync(shared, prepRes, results)
BatchPost ==
  /\ pc = "bexec"
  /\ \A j \in 1..Len(cycles) : cycles[j].st = "done"
  /\ \E l \in PostLabels(heap[curr], execRes) :
       /\ trace' = Append(trace, Event("post", heap[curr].id, prepRes, execRes, Undef,
                                       FALSE, heap[curr].curRetry, l))
       /\ result' = l
  /\ shared' = PostWrite(heap[curr], shared, execRes)
  /\ pc' = "done"
  /\ UNCHANGED <<graph, mode, flowKind, wireVars, warnings, travVars, stack, cycles, flowParams, heap, succTable,
                 curr, p, lastAction, prepRes, execRes, i, exc, error, calls,
                 steps, runs, heapAtRun>>

NextBN ==
  \/ BatchRun
  \/ BatchPrep
  \/ \E j \in 1..Len(cycles) : ItemStart(j)
  \/ \E j \in 1..Len(cycles) : ItemAttempt(j)
  \/ \E j \in 1..Len(cycles) : ItemFallback(j)
  \/ BatchPost

SpecBN == InitBN /\ [][NextBN]_vars

\* ----------------------------------------------------------- batch flows
BatchFlowKinds == {"BatchFlow", "AsyncBatchFlow", "AsyncParallelBatchFlow"}

\* new BatchFlow(translate): the one-node subgraph of the translation scenario
TranslateWiring == [n \in Nodes |-> NoSucc]

\* translate.next(report): the same with a second node behind the first
PipelineWiring ==
  [n \in Nodes |->
     IF n = "n1" THEN [NoSucc EXCEPT !["default"] = "n2"] ELSE NoSucc]

\* a batch flow over one of the two subgraphs, before its run
InitBF ==
  /\ graph \in {"translate", "pipeline"}
  /\ mode = "flow"
  /\ flowKind \in BatchFlowKinds
  /\ \E kind \in {"Node", "AsyncNode"}, k \in 0..MaxRetriesBound :
       /\ graph = "pipeline" => flowKind # "AsyncParallelBatchFlow"
       /\ entry = (IF flowKind = "BatchFlow" THEN "run" ELSE "runAsync")
       /\ heap = [r \in Refs |->
                    IF r \in Nodes
                      THEN NewNode(r, IF r = "n1" THEN "Translate" ELSE "Plain",
                                   kind, k, "default")
                      ELSE BuiltinObj]
  /\ succTable = (IF graph = "translate" THEN TranslateWiring ELSE PipelineWiring)
  /\ flowParams \in {EmptyParams, BaseParams}
  /\ shared = FreshShared
  /\ pc = "idle"
  /\ curr = NoNode
  /\ p = EmptyParams
  /\ lastAction = "default"
  /\ prepRes = Undef
  /\ execRes = Undef
  /\ i = 0
  /\ exc = Undef
  /\ error = Undef
  /\ result = "default"
  /\ trace = <<>>
  /\ calls = 0
  /\ steps = 0
  /\ runs = 0
  /\ heapAtRun = heap
  /\ stack = <<>>
  /\ cycles = <<>>
  /\ paramSets = <<>>
  /\ tid = 0
  /\ ctx = <<>>
  /\ startNode = "n1"
  /\ call = NoCall
  /\ warnings = <<>>

\* an overlay in which the flow's own keys win
OverlayBaseWins(base, bp) ==
  [k \in (DOMAIN base) \cup (DOMAIN bp) |-> IF k \in DOMAIN base THEN base[k] ELSE bp[k]]

\* { ...this.params, ...bp }
Overlay(base, bp) ==
  [k \in (DOMAIN base) \cup (DOMAIN bp) |-> IF k \in DOMAIN bp THEN bp[k] ELSE base[k]]

\* a traversal that has not been started
NewCtx ==
  [st |-> "new", pc |-> "orch", curr |-> NoNode, p |-> EmptyParams,
   lastAction |-> "default", prepRes |-> Undef, execRes |-> Undef, i |-> 0,
   exc |-> Undef]

\* the locals of the running traversal, as they wait while it is suspended
SavedCtx ==
  [st |-> "suspended", pc |-> pc, curr |-> curr, p |-> p,
   lastAction |-> lastAction, prepRes |-> prepRes, execRes |-> execRes, i |-> i,
   exc |-> exc]

Parallel == flowKind = "AsyncParallelBatchFlow"

\* pr.map has called _orchAsync for every parameter set
AllStarted == \A j \in 1..Len(ctx) : ctx[j].st # "new"

\* a join that is over when the first traversal is
JoinAny(c) == c = <<>> \/ \E j \in 1..Len(c) : c[j].st = "finished"

\* the for loop is over / Promise.all has resolved: every traversal returned
JoinReady(c) == \A j \in 1..Len(c) : c[j].st = "finished"

\* the running traversal is at an await of _orchAsync -> _runAsync: the
\* phases of an AsyncNode (a synchronous Node is run without any await)
AtAwait ==
  /\ tid # 0
  /\ pc \in {"execInit", "exec", "fallback", "post", "next"}
  /\ heap[curr].kind = "AsyncNode"

\* inside pr.map a traversal runs up to its first await and returns its
\* promise; it cannot go on before map has made the remaining calls
MustYield == Parallel /\ AtAwait /\ ~AllStarted

\* control is with _run / _runAsync of the batch flow: between the
\* traversals, or, in the parallel flow, after one of them has failed (the
\* rejection of one promise stops neither map nor the other traversals)
HasControl == pc = "bflow" \/ (pc = "thrown" /\ Parallel)

\* ctx once the traversal that threw, if any, is recorded as failed
Parked ==
  IF tid # 0 /\ pc = "thrown" THEN [ctx EXCEPT ![tid].st = "failed"] ELSE ctx

\* batchFlow.run(shared) / runAsync(shared): pr = prep(shared) || []
RunBatchFlow ==
  /\ mode = "flow" /\ runs = 0
  /\ RunBegins
  /\ error' = Undef
  /\ \E n \in 0..Len(ParamSets) :
       /\ paramSets' = SubSeq(ParamSets, 1, n)
       /\ ctx' = [j \in 1..n |-> NewCtx]
  /\ tid' = 0
  /\ steps' = 0
  /\ warnings' = <<>>
  /\ pc' = "bflow"
  /\ UNCHANGED <<graph, mode, flowKind, wireVars, cycles, flowParams, succTable, heap, curr, p>>

\* the next _orch / _orchAsync(shared, { ...this.params, ...bp }) call: in
\* the sequential flows after the call before it has returned, in the
\* parallel flow as soon as the call before it has returned its promise
StartTraversal(j) ==
  /\ HasControl
  /\ ctx[j].st = "new"
  /\ \A m \in 1..(j - 1) :
       IF Parallel THEN ctx[m].st # "new" ELSE ctx[m].st = "finished"
  /\ tid' = j
  /\ ctx' = [Parked EXCEPT ![j].st = "active"]
  /\ pc' = "tstart"
  /\ UNCHANGED <<graph, mode, flowKind, wireVars, warnings, stack, cycles, paramSets, flowParams, heap,
                 succTable, shared, curr, p, lastAction, prepRes, execRes, i, exc,
                 error, result, trace, calls, steps, runs, heapAtRun>>

\* the first lines of that call: the copy of the start node if there is
\* one, p = params, lastAction = 'default'
TraversalProlog ==
  /\ pc = "tstart"
  /\ IF startNode = NoNode
       THEN curr' = NoNode /\ heap' = heap
       ELSE curr' = CopyRef(startNode) /\ heap' = HeapWithCopy(heap, startNode)
  /\ p' = Overlay(flowParams, paramSets[tid])
  /\ lastAction' = FirstAction
  /\ pc' = "orch"
  /\ UNCHANGED <<graph, mode, flowKind, wireVars, warnings, travVars, stack, cycles, flowParams,
                 succTable, shared, prepRes, execRes, i, exc, error, result,
                 trace, calls, steps, runs, heapAtRun>>

\* the running traversal waits at an await; control goes back to map or to
\* the event loop
Suspend ==
  /\ Parallel /\ AtAwait
  /\ ctx' = [ctx EXCEPT ![tid] = SavedCtx]
  /\ tid' = 0
  /\ pc' = "bflow"
  /\ UNCHANGED <<graph, mode, flowKind, wireVars, warnings, stack, cycles, paramSets, flowParams, heap,
                 succTable, shared, curr, p, lastAction, prepRes, execRes, i, exc,
                 error, result, trace, calls, steps, runs, heapAtRun>>

\* the event loop resumes a waiting traversal with its own locals
Resume(j) ==
  /\ HasControl /\ Parallel /\ AllStarted
  /\ ctx[j].st = "suspended"
  /\ tid' = j
  /\ ctx' = [Parked EXCEPT ![j].st = "active"]
  /\ pc' = ctx[j].pc
  /\ curr' = ctx[j].curr
  /\ p' = ctx[j].p
  /\ lastAction' = ctx[j].lastAction
  /\ prepRes' = ctx[j].prepRes
  /\ execRes' = ctx[j].execRes
  /\ i' = ctx[j].i
  /\ exc' = ctx[j].exc
  /\ UNCHANGED <<graph, mode, flowKind, wireVars, warnings, stack, cycles, paramSets, flowParams, heap,
                 succTable, shared, error, result, trace, calls, steps, runs,
                 heapAtRun>>

\* the while of the running traversal ends: its call returns
TraversalEnd ==
  /\ pc = "orch" /\ curr = NoNode /\ tid # 0
  /\ ctx' = [ctx EXCEPT ![tid].st = "finished"]
  /\ tid' = 0
  /\ pc' = IF error # Undef THEN "thrown" ELSE "bflow"
  /\ UNCHANGED <<graph, mode, flowKind, wireVars, warnings, stack, cycles, paramSets, flowParams, heap,
                 succTable, shared, curr, p, lastAction, prepRes, execRes, i, exc,
                 error, result, trace, calls, steps, runs, heapAtRun>>

\* return this.post(shared, pr, null) / postAsync(shared, pr, null)
BatchFlowPost ==
  /\ pc = "bflow" /\ error = Undef
  /\ JoinReady(ctx)
  /\ result' = FlowPost(shared, paramSets, Null)
  /\ pc' = "done"
  /\ UNCHANGED <<graph, mode, flowKind, wireVars, warnings, travVars, stack, cycles, flowParams, heap,
                 succTable, shared, curr, p, lastAction, prepRes, execRes, i, exc,
                 error, trace, calls, steps, runs, heapAtRun>>

NextBF ==
  \/ RunBatchFlow
  \/ \E j \in 1..Len(ctx) : StartTraversal(j)
  \/ TraversalProlog
  \/ OrchStep
  \/ Prep
  \/ ~MustYield /\ ExecInit
  \/ ~MustYield /\ ExecAttempt
  \/ ~MustYield /\ Fallback
  \/ ~MustYield /\ Post
  \/ ~MustYield /\ GetNext
  \/ Suspend
  \/ \E j \in 1..Len(ctx) : Resume(j)
  \/ TraversalEnd
  \/ BatchFlowPost

SpecBF == InitBF /\ [][NextBF]_vars

\* ---------------------------------------------------- reading the history
ExecEvents == SelectSeq(trace, LAMBDA e : e.ev = "exec")
FallbackEvents == SelectSeq(trace, LAMBDA e : e.ev = "fallback")
PrepEvents == SelectSeq(trace, LAMBDA e : e.ev = "prep")
PostEvents == SelectSeq(trace, LAMBDA e : e.ev = "post")
EventsOf(ev, n) == SelectSeq(trace, LAMBDA e : e.ev = ev /\ e.node = n)
Ended == pc \in {"done", "thrown"}

\* node.run(shared) called on a synchronous Node with maxRetries = K >= 1
K == heap["n1"].maxRetries
DirectSyncRun == mode = "node" /\ heap["n1"].kind = "Node" /\ K >= 1

\* the exec attempts made so far threw exactly while fewer than K were made
FailsThenSucceeds ==
  \A j \in 1..Len(ExecEvents) : ExecEvents[j].threw <=> (j < K)

\* every exec attempt made so far threw
AlwaysFails == \A j \in 1..Len(ExecEvents) : ExecEvents[j].threw

\* C1: a Node with maxRetries = k >= 1 whose exec throws on its first k-1
\* attempts and returns v on attempt k: run() calls exec exactly k times,
\* never calls execFallback, does not throw, hands v to post as the exec
\* result, and the j-th attempt sees curRetry = j-1 (k-1 for the successful one).
C1_RetryThenSuccess ==
  (DirectSyncRun /\ FailsThenSucceeds) =>
    /\ Len(ExecEvents) <= K
    /\ FallbackEvents = <<>> /\ pc \notin {"fallback", "thrown"}
    /\ \A j \in 1..Len(ExecEvents) : ExecEvents[j].cur = j - 1
    /\ pc = "done" =>
         /\ Len(ExecEvents) = K
         /\ Len(PostEvents) = 1
         /\ PostEvents[1].x = ExecEvents[K].out
         /\ ExecEvents[K].cur = K - 1

C1_Witness ==
  /\ DirectSyncRun /\ K = 2 /\ pc = "done"
  /\ Len(ExecEvents) = 2 /\ ExecEvents[1].threw /\ ~ExecEvents[2].threw
  /\ PostEvents[1].x = ExecEvents[2].out

\* C2: a Node with maxRetries = k >= 1 whose exec throws on every attempt:
\* exec is called exactly k times, then execFallback exactly once, with the
\* prep result every attempt received and the error of the k-th attempt; what
\* execFallback returns is what post receives as the exec result.
C2_ExhaustionCallsFallbackOnce ==
  DirectSyncRun =>
    /\ Len(FallbackEvents) <= 1
    /\ \A f \in 1..Len(FallbackEvents) :
         /\ Len(ExecEvents) = K /\ AlwaysFails
         /\ FallbackEvents[f].pr = PrepEvents[1].out
         /\ \A j \in 1..K : ExecEvents[j].pr = FallbackEvents[f].pr
         /\ FallbackEvents[f].x = ExecEvents[K].out
    /\ (AlwaysFails /\ Len(ExecEvents) = K) => pc \in {"fallback", "post", "done", "thrown"}
    /\ (AlwaysFails /\ Ended) => Len(ExecEvents) = K /\ Len(FallbackEvents) = 1
    /\ (AlwaysFails /\ pc = "done") =>
         Len(PostEvents) = 1 /\ PostEvents[1].x = FallbackEvents[1].out

C2_Witness ==
  /\ DirectSyncRun /\ K = 2 /\ pc = "done" /\ AlwaysFails
  /\ Len(ExecEvents) = 2 /\ Len(FallbackEvents) = 1
  /\ FallbackEvents[1].x = ExecEvents[2].out
  /\ PostEvents[1].x = FallbackVal("n1")


\* ------------------------------------------------------------ flow claims
InFlow == mode = "flow"
\* a flow run whose wired nodes are all leaf nodes (no nested flow)
FlatFlow == InFlow /\ graph # "nested"
Last(seq) == seq[Len(seq)]

\* the successor registered for the label an event's node returned
SuccessorFor(e) == succTable[heap[e.node].successors][e.label]

\* C3: when a node's execFallback throws (the default one rethrows the error
\* of the last exec attempt), Flow.run / AsyncFlow.runAsync ends by throwing
\* that same error: the failing node's post is not called and no further
\* node is executed.
C3_FallbackThrowAbortsFlow ==
  InFlow =>
    \A idx \in 1..Len(trace) :
      trace[idx].ev = "fallback" =>
        /\ heap[trace[idx].node].fallback = "default" =>
             /\ trace[idx].threw
             /\ trace[idx].out = trace[idx].x
             /\ trace[idx - 1].ev = "exec" /\ trace[idx - 1].threw
             /\ trace[idx - 1].out = trace[idx].x
        /\ trace[idx].threw =>
             /\ idx = Len(trace)
             /\ pc = "thrown"
             /\ error = trace[idx].out

C3_Witness ==
  /\ InFlow /\ pc = "thrown" /\ heap["n1"].fallback = "default" /\ K = 2
  /\ Len(PostEvents) >= 1
  /\ Last(trace).ev = "fallback" /\ Last(trace).node # "n1"
  /\ error = Last(ExecEvents).out

\* the x arguments of a sequence of post events, concatenated in order
RECURSIVE ConcatX(_)
ConcatX(seq) ==
  IF seq = <<>> THEN <<>>
  ELSE ConcatX(SubSeq(seq, 1, Len(seq) - 1)) \o Last(seq).x

\* the Shared Context that holds exactly the writes of the posts completed so far
WrittenByPosts ==
  [k \in Keys |->
     IF k \in Nodes
       THEN IF ClassOf(graph, k) = "Test" /\ EventsOf("post", k) # <<>>
              THEN Last(EventsOf("post", k)).x ELSE Undef
     ELSE IF k = "searchResults"
       THEN IF graph = "agent" /\ EventsOf("post", "n2") # <<>>
              THEN ConcatX(EventsOf("post", "n2")) ELSE Undef
     ELSE IF k = "answer"
       THEN IF graph = "agent" /\ EventsOf("post", "n3") # <<>>
              THEN Last(EventsOf("post", "n3")).x ELSE Undef
     ELSE Undef]

\* C4: at every point of a Flow run, and so after it aborted with a fatal
\* error, the Shared Context holds every write made by the posts that
\* completed and nothing else: no rollback, and no write or removal by the engine.
C4_SharedWritesSurviveAbort ==
  InFlow => shared = WrittenByPosts

C4_Witness ==
  /\ InFlow /\ pc = "thrown"
  /\ Len(PostEvents) = 2 /\ Last(trace).ev = "fallback"
  /\ shared["n1"] = PostEvents[1].x /\ shared["n1"] # Undef
  /\ shared["n2"] = PostEvents[2].x /\ shared["n2"] # Undef

\* C5: in Flow.run and AsyncFlow.runAsync the nodes execute one at a time: a
\* node's prep, its exec attempts, its fallback and its post follow each other
\* with no phase of another node between them, the next node's prep starts
\* only after the previous node's post, the first node is the start node, and
\* the flow returns the label of the last post.
C5_OneNodeAtATime ==
  FlatFlow =>
    /\ \A idx \in 1..Len(trace) :
         LET e == trace[idx] IN
         IF e.ev = "prep"
           THEN IF idx = 1 THEN e.node = "n1" ELSE trace[idx - 1].ev = "post"
           ELSE /\ idx > 1
                /\ trace[idx - 1].node = e.node
                /\ e.ev = "exec" => trace[idx - 1].ev \in {"prep", "exec"}
                /\ e.ev = "fallback" => trace[idx - 1].ev = "exec"
                /\ e.ev = "post" => trace[idx - 1].ev \in {"prep", "exec", "fallback"}
    /\ pc = "done" =>
         /\ trace # <<>>
         /\ Last(trace).ev = "post"
         /\ result = Last(trace).label

C5_Witness ==
  /\ InFlow /\ pc = "done" /\ graph = "chain" /\ flowKind = "AsyncFlow"
  /\ Len(PostEvents) = 3
  /\ PostEvents[1].node = "n1" /\ PostEvents[2].node = "n2" /\ PostEvents[3].node = "n3"
  /\ result = "failure"

\* C6: after a node returned label L, the node executed next, if any, is the
\* node registered under L in that node's successor table, and when a node
\* is registered under L it is the one the flow goes on with.
C6_SuccessorByLabel ==
  FlatFlow =>
    /\ \A idx \in 1..(Len(trace) - 1) :
         trace[idx].ev = "post" =>
           /\ trace[idx + 1].ev = "prep"
           /\ trace[idx + 1].node = SuccessorFor(trace[idx])
    /\ (pc = "orch" /\ trace # <<>> /\ SuccessorFor(Last(trace)) # NoNode) =>
         curr # NoNode /\ heap[curr].id = SuccessorFor(Last(trace))

C6_Witness ==
  /\ InFlow /\ graph = "cond" /\ Len(trace) >= 3
  /\ \E idx \in 1..(Len(trace) - 1) :
       /\ trace[idx].ev = "post" /\ trace[idx].node = "n1" /\ trace[idx].label = "failure"
       /\ trace[idx + 1].ev = "prep" /\ trace[idx + 1].node = "n3"
  /\ succTable["n1"]["success"] = "n2"

\* C7: when a node's post returns a label that is not registered in its
\* successor table, the traversal ends after that node without throwing: no
\* further node runs and Flow.run returns that label.
\* (Refuted by the label "constructor": the lookup finds the property every
\* object literal inherits, the flow takes it for the next node and throws.)
C7_UnmatchedLabelEndsTraversal ==
  InFlow =>
    \A idx \in 1..Len(trace) :
      (trace[idx].ev = "post" /\ SuccessorFor(trace[idx]) = NoNode) =>
        /\ idx = Len(trace)
        /\ pc \in {"next", "orch", "done"}
        /\ error = Undef
        /\ pc = "orch" => curr = NoNode
        /\ pc = "done" => result = trace[idx].label

\* the nodes executed so far, in order
VisitOrder == [j \in 1..Len(PrepEvents) |-> PrepEvents[j].node]
LabelsOf(n) == [j \in 1..Len(EventsOf("post", n)) |-> EventsOf("post", n)[j].label]

\* C8: in the agent flow (Decide -search-> Search -decide-> Decide -answer->
\* Answer), when Decide's post returned "search", "search", "answer" on its
\* three visits and the flow returned, the nodes ran in the order Decide,
\* Search, Decide, Search, Decide, Answer (Search exactly twice, both before
\* Answer, Answer once) and searchResults holds the first Search's output
\* followed by the second's.
C8_AgentLoop ==
  (graph = "agent" /\ pc = "done"
     /\ LabelsOf("n1") = <<"search", "search", "answer">>) =>
    /\ VisitOrder = <<"n1", "n2", "n1", "n2", "n1", "n3">>
    /\ Len(EventsOf("post", "n2")) = 2 /\ Len(EventsOf("post", "n3")) = 1
    /\ Len(EventsOf("exec", "n2")) = 2
    /\ shared["searchResults"] =
         EventsOf("exec", "n2")[1].out \o EventsOf("exec", "n2")[2].out

C8_Witness ==
  /\ graph = "agent" /\ pc = "done"
  /\ LabelsOf("n1") = <<"search", "search", "answer">>
  /\ Len(shared["searchResults"]) = 2
  /\ shared["searchResults"][1] # shared["searchResults"][2]
  /\ shared["answer"] # Undef

\* C9: a Flow run executes copies, never the wired nodes: at every point of
\* every run each wired node's params and curRetry are what they were when
\* the run was called and at construction, and every node execution (also a
\* second visit in a loop, or in a second run) starts on a copy with them.
C9_WiredNodesUntouched ==
  InFlow =>
    /\ \A n \in Nodes :
         /\ heap[n].params = heapAtRun[n].params
         /\ heap[n].curRetry = heapAtRun[n].curRetry
         /\ heap[n].params = EmptyParams
         /\ heap[n].curRetry = 0
    /\ (pc = "orch" /\ curr # NoNode) =>
         /\ curr \notin Nodes
         /\ heap[curr].params = EmptyParams
         /\ heap[curr].curRetry = 0

C9_Witness ==
  /\ InFlow /\ runs = 2 /\ Ended
  /\ heap[CopySlot].curRetry = 1 /\ heap[CopySlot].params = FlowParamsSet
  /\ heap[heap[CopySlot].id].curRetry = 0
  /\ heap[heap[CopySlot].id].params = EmptyParams

\* C10: in the documented loop (loop -continue-> process -default-> loop,
\* loop -done-> end; the loop node's post counts its visits in an instance
\* field and returns "continue" below 3, "done" otherwise) the loop node is
\* visited exactly 3 times and then end is executed.
C10_LoopVisitedThreeTimes ==
  graph = "loop" =>
    /\ Len(EventsOf("prep", "n1")) <= 3
    /\ Len(EventsOf("prep", "n1")) = 3 /\ Len(EventsOf("post", "n1")) = 3 =>
         Last(EventsOf("post", "n1")).label = "done"

\* C11: the documented stateful node (an instance field count, incremented
\* and returned by exec) keeps its state between executions: its n-th
\* execution returns n, when it is run directly with run() (each run is one
\* execution) and when a flow executes it repeatedly (within the first run
\* of the flow the j-th exec call is the j-th execution).
C11_CounterKeepsState ==
  graph = "counter" =>
    /\ mode = "node" =>
         \A j \in 1..Len(ExecEvents) : ExecEvents[j].out = Count(runs)
    /\ (mode = "flow" /\ runs = 1) =>
         \A j \in 1..Len(ExecEvents) : ExecEvents[j].out = Count(j)

\* the nested flow has returned to the outer _orch, which has not yet looked
\* up the next node
SubFlowReturned == pc = "next" /\ heap[curr].cls = "Flow"

\* a Flow of synchronous nodes nested in a Flow
NestedSync == graph = "nested" /\ flowKind = "Flow" /\ heap["n2"].kind = "Node"

\* C12: a Flow registered as a node of an outer Flow, when visited, runs its
\* subgraph from its start node until a label has no successor (n2, and n3
\* after n2's "success"), returns the label of the last inner post as its own
\* label, and the outer Flow goes on with the node registered under that
\* label in the inner flow's own successor table, or ends when there is none.
C12_NestedFlowRunsToItsEnd ==
  NestedSync =>
    /\ SubFlowReturned =>
         /\ PostEvents # <<>>
         /\ VisitOrder \in {<<"n2">>, <<"n2", "n3">>}
         /\ PostEvents[1].label = "success" => VisitOrder = <<"n2", "n3">>
         /\ SuccessorFor(Last(PostEvents)) = NoNode
         /\ Last(trace).ev = "post"
         /\ lastAction = Last(PostEvents).label
    /\ (pc = "orch" /\ stack = <<>> /\ PostEvents # <<>>
          /\ Last(PostEvents).node \in {"n2", "n3"}) =>
         LET nx == succTable[heap["n1"].successors][Last(PostEvents).label] IN
         IF nx = NoNode THEN curr = NoNode
         ELSE curr # NoNode /\ heap[curr].id = nx
    /\ \A idx \in 1..Len(trace) :
         trace[idx].node = "n4" =>
           /\ idx > 1
           /\ trace[idx - 1].node = "n4" \/ trace[idx - 1].label = "success"

C12_Witness ==
  /\ NestedSync /\ pc = "done"
  /\ VisitOrder = <<"n2", "n3", "n4">>
  /\ PostEvents[2].label = "success"
  /\ result = PostEvents[3].label

\* C13: an AsyncFlow of AsyncNodes used as a node inside an outer AsyncFlow
\* runs as it does at top level: its nodes are executed through their
\* asynchronous lifecycle and the outer runAsync does not fail with the
\* error of AsyncNode._run.
C13_NestedAsyncFlowRuns ==
  (graph = "nested" /\ flowKind = "AsyncFlow" /\ heap["n1"].kind = "AsyncFlow"
     /\ heap["n2"].kind = "AsyncNode") =>
    error # UseRunAsyncErr

\* ------------------------------------------- reading a batch node's history
\* the exec attempts and the fallback calls made for the j-th item
ItemExecs(j) == SelectSeq(trace, LAMBDA e : e.ev = "exec" /\ e.pr = Item(j))
ItemFallbacks(j) == SelectSeq(trace, LAMBDA e : e.ev = "fallback" /\ e.pr = Item(j))

\* the result obtained for the j-th item: what its fallback returned when it
\* was called, else what its last exec attempt returned
ResultFor(j) ==
  IF ItemFallbacks(j) # <<>> THEN Last(ItemFallbacks(j)).out
  ELSE IF ItemExecs(j) # <<>> /\ ~Last(ItemExecs(j)).threw THEN Last(ItemExecs(j)).out
  ELSE Undef

BatchKind == heap["n1"].kind
ItemCount == Len(cycles)

\* C14: for BatchNode and AsyncBatchNode (maxRetries >= 1) with prep
\* returning [i1..in]: the exec attempts come in input order, item by item;
\* every item has its own retry cycle (its t-th attempt sees loop index t-1,
\* at most maxRetries attempts); and post receives a sequence of length n
\* whose j-th element is the result obtained for ij, every item having been
\* executed.
C14_BatchInInputOrder ==
  (BatchKind \in {"BatchNode", "AsyncBatchNode"} /\ K >= 1
     /\ heap["n1"].cls = "Batch") =>
    /\ \A a, b \in 1..Len(trace) :
         (a < b /\ trace[a].ev \in {"exec", "fallback"}
                /\ trace[b].ev \in {"exec", "fallback"}) =>
           trace[a].pr[2] <= trace[b].pr[2]
    /\ \A j \in 1..ItemCount :
         /\ Len(ItemExecs(j)) <= K
         /\ \A t \in 1..Len(ItemExecs(j)) : ItemExecs(j)[t].cur = t - 1
    /\ pc = "done" =>
         /\ Len(PostEvents) = 1
         /\ Len(PostEvents[1].x) = Len(prepRes)
         /\ PostEvents[1].pr = prepRes
         /\ \A j \in 1..Len(prepRes) :
              /\ ItemExecs(j) # <<>>
              /\ PostEvents[1].x[j] = ResultFor(j)

C14_Witness ==
  /\ BatchKind = "BatchNode" /\ K = 2 /\ pc = "done" /\ ItemCount = 2
  /\ Len(ItemExecs(1)) = 2 /\ ItemExecs(1)[1].threw /\ ~ItemExecs(1)[2].threw
  /\ Len(ItemExecs(2)) = 1 /\ ItemExecs(2)[1].cur = 0 /\ ~ItemExecs(2)[1].threw
  /\ PostEvents[1].x = <<ItemExecs(1)[2].out, ItemExecs(2)[1].out>>

\* C15: for AsyncParallelBatchNode, in whatever order the items' exec
\* attempts complete, post receives a sequence of length n whose j-th
\* element is the result obtained for the j-th input item.
C15_ParallelResultsInInputOrder ==
  (BatchKind = "AsyncParallelBatchNode" /\ pc = "done") =>
    /\ Len(PostEvents) = 1
    /\ Len(PostEvents[1].x) = Len(prepRes)
    /\ \A j \in 1..Len(prepRes) : PostEvents[1].x[j] = ResultFor(j)

\* the second item's exec completed before the first item's
C15_Witness ==
  /\ BatchKind = "AsyncParallelBatchNode" /\ pc = "done" /\ ItemCount = 2
  /\ \E a, b \in 1..Len(trace) :
       /\ a < b
       /\ trace[a].ev = "exec" /\ trace[a].pr = Item(2) /\ ~trace[a].threw
       /\ trace[b].ev = "exec" /\ trace[b].pr = Item(1) /\ ~trace[b].threw
       /\ PostEvents[1].x = <<trace[b].out, trace[a].out>>

\* every fallback call made so far returned a value
FallbacksReturn == \A f \in 1..Len(FallbackEvents) : ~FallbackEvents[f].threw

\* C16: in the three batch nodes (maxRetries >= 1) with a fallback that
\* returns a value, an item whose exec fails on all maxRetries attempts does
\* not stop the batch: the run does not throw, every item is executed, post
\* is called with one result per item, and the position of an item whose
\* attempts all failed holds the value its fallback returned.
C16_FallbackValueKeepsBatchGoing ==
  (heap["n1"].fallback = "custom" /\ K >= 1 /\ FallbacksReturn) =>
    /\ pc # "thrown"
    /\ \A j \in 1..ItemCount : cycles[j].st # "failed"
    /\ pc = "done" =>
         /\ Len(PostEvents) = 1
         /\ Len(PostEvents[1].x) = Len(prepRes)
         /\ \A j \in 1..Len(prepRes) :
              /\ ItemExecs(j) # <<>>
              /\ (Len(ItemExecs(j)) = K /\ ItemExecs(j)[K].threw) =>
                   /\ Len(ItemFallbacks(j)) = 1
                   /\ ItemFallbacks(j)[1].x = ItemExecs(j)[K].out
                   /\ PostEvents[1].x[j] = ItemFallbacks(j)[1].out
                   /\ PostEvents[1].x[j] = FallbackVal("n1")

C16_Witness ==
  /\ BatchKind = "AsyncBatchNode" /\ heap["n1"].fallback = "custom" /\ K = 2
  /\ pc = "done" /\ ItemCount = 2
  /\ Len(ItemExecs(1)) = 2 /\ ItemExecs(1)[2].threw
  /\ Len(ItemExecs(2)) = 1 /\ ~ItemExecs(2)[1].threw
  /\ PostEvents[1].x = <<FallbackVal("n1"), ItemExecs(2)[1].out>>

\* ------------------------------------------- reading a batch flow's history
\* the user-code calls made within traversal t, and its exec attempts
TrEvents(t) == SelectSeq(trace, LAMBDA e : e.tr = t)
TrExecs(t) == SelectSeq(trace, LAMBDA e : e.tr = t /\ e.ev = "exec")
TrVisits(t) == [j \in 1..Len(SelectSeq(TrEvents(t), LAMBDA e : e.ev = "prep")) |->
                  SelectSeq(TrEvents(t), LAMBDA e : e.ev = "prep")[j].node]

\* ps is the flow's own params overlaid with the t-th parameter set: the
\* keys of both, the set's value where it has the key, the flow's elsewhere
IsOverlaid(ps, t) ==
  /\ DOMAIN ps = (DOMAIN flowParams) \cup (DOMAIN paramSets[t])
  /\ \A k \in DOMAIN paramSets[t] : ps[k] = paramSets[t][k]
  /\ \A k \in (DOMAIN flowParams) \ (DOMAIN paramSets[t]) : ps[k] = flowParams[k]

\* the nodes one full traversal of the subgraph visits
FullTraversal == IF graph = "translate" THEN <<"n1">> ELSE <<"n1", "n2">>

SequentialFlow == flowKind \in {"BatchFlow", "AsyncBatchFlow"}

\* C17: BatchFlow and AsyncBatchFlow, for a prep result [p1..pn], make one
\* traversal per set and no other, in list order, each from the start node
\* to the end of the subgraph, traversal j being finished before traversal
\* j+1 starts; every call made in traversal j reads the flow's own params
\* overlaid with pj (pj's keys win); the flow's post is reached only when
\* the last traversal is finished.
C17_SequentialTraversals ==
  SequentialFlow =>
    /\ Len(ctx) = Len(paramSets)
    /\ \A a, b \in 1..Len(trace) : a < b => trace[a].tr <= trace[b].tr
    /\ \A idx \in 1..Len(trace) :
         /\ trace[idx].tr \in 1..Len(paramSets)
         /\ IsOverlaid(trace[idx].params, trace[idx].tr)
    /\ \A t \in 1..Len(ctx) :
         /\ ctx[t].st # "new" => \A m \in 1..(t - 1) : ctx[m].st = "finished"
         /\ TrEvents(t) # <<>> =>
              TrEvents(t)[1].ev = "prep" /\ TrEvents(t)[1].node = "n1"
         /\ ctx[t].st = "finished" => TrVisits(t) = FullTraversal
    /\ pc = "done" => \A t \in 1..Len(ctx) : ctx[t].st = "finished"

C17_Witness ==
  /\ flowKind = "AsyncBatchFlow" /\ graph = "pipeline" /\ flowParams = BaseParams
  /\ pc = "done" /\ Len(paramSets) = 2
  /\ VisitOrder = <<"n1", "n2", "n1", "n2">>
  /\ TrEvents(1)[1].params = [lang |-> "fr", run |-> "p"]
  /\ TrEvents(2)[1].params = [lang |-> "de", run |-> "p"]

\* a traversal has gone past its first await
PastFirstAwait(t) == ctx[t].st = "finished" \/ Len(TrEvents(t)) > 1

\* C18: AsyncParallelBatchFlow starts the traversal of every parameter set
\* before any traversal is taken up again after its first await (so none of
\* a graph of AsyncNodes has gone further, or finished, while one is not
\* started), and its postAsync is reached only when every traversal has
\* reached its end.
C18_ParallelStartAndJoin ==
  Parallel =>
    /\ pc = "done" =>
         /\ error = Undef
         /\ Len(ctx) = Len(paramSets)
         /\ \A t \in 1..Len(ctx) : ctx[t].st = "finished"
    /\ (heap["n1"].kind = "AsyncNode" /\ ~AllStarted) =>
         \A t \in 1..Len(ctx) : ~PastFirstAwait(t)

C18_Witness ==
  /\ Parallel /\ heap["n1"].kind = "AsyncNode" /\ pc = "done" /\ Len(paramSets) = 2
  /\ trace[1].tr = 1 /\ trace[2].tr = 2 /\ trace[2].ev = "prep"
  /\ trace[3].tr = 2
  /\ Last(trace).tr = 1

\* C19: a batch flow of any of the three classes given [{lang:"fr"},
\* {lang:"de"}] over the one-node subgraph whose post writes
\* translations[lang] for its bound lang: when the run has returned, fr and
\* de both hold the translation computed for their own lang, whatever the
\* interleaving of the two traversals was.
C19_TranslationsPerLang ==
  (graph = "translate" /\ Len(paramSets) = 2 /\ K >= 1 /\ pc = "done") =>
    /\ shared["fr"] = Translation(<<"text", "fr">>)
    /\ shared["de"] = Translation(<<"text", "de">>)

\* de was written before fr, after both traversals had made their prep
C19_Witness ==
  /\ Parallel /\ graph = "translate" /\ Len(paramSets) = 2 /\ pc = "done"
  /\ Len(trace) = 6
  /\ trace[1].tr = 1 /\ trace[2].tr = 2
  /\ trace[4].ev = "post" /\ trace[4].tr = 2
  /\ trace[6].ev = "post" /\ trace[6].tr = 1
  /\ shared["fr"] = Translation(<<"text", "fr">>)
  /\ shared["de"] = Translation(<<"text", "de">>)

\* the loop index an exec attempt saw: curRetry in a Node, i in an AsyncNode
SeenIdx(e) == IF heap["n1"].kind = "AsyncNode" THEN e.i ELSE e.cur

\* C20: in AsyncParallelBatchFlow every call of user code made within the
\* traversal of pj (prep, exec, fallback, post, before and after its
\* suspensions) reads params equal to the flow's params overlaid with pj,
\* and the m-th exec attempt of a traversal sees loop index m-1: neither the
\* parameter set nor the retry progress of the other traversal is observed.
C20_TraversalIsolation ==
  Parallel =>
    /\ \A idx \in 1..Len(trace) :
         /\ trace[idx].tr \in 1..Len(paramSets)
         /\ IsOverlaid(trace[idx].params, trace[idx].tr)
    /\ \A t \in 1..Len(ctx) :
         /\ Len(TrExecs(t)) <= K
         /\ \A m \in 1..Len(TrExecs(t)) : SeenIdx(TrExecs(t)[m]) = m - 1
    /\ (tid # 0 /\ pc \in {"prep", "execInit", "exec", "fallback", "post", "next"}) =>
         IsOverlaid(heap[curr].params, tid)

\* both traversals retried, their attempts alternating
C20_Witness ==
  /\ Parallel /\ heap["n1"].kind = "AsyncNode" /\ K = 2 /\ flowParams = BaseParams
  /\ pc = "done" /\ Len(paramSets) = 2
  /\ Len(ExecEvents) = 4
  /\ ExecEvents[1].tr = 1 /\ ExecEvents[1].threw /\ ExecEvents[1].i = 0
  /\ ExecEvents[2].tr = 2 /\ ExecEvents[2].threw /\ ExecEvents[2].i = 0
  /\ ExecEvents[3].tr = 1 /\ ~ExecEvents[3].threw /\ ExecEvents[3].i = 1
  /\ ExecEvents[4].tr = 2 /\ ~ExecEvents[4].threw /\ ExecEvents[4].i = 1
  /\ ExecEvents[3].params = [lang |-> "fr", run |-> "p"]
  /\ ExecEvents[4].params = [lang |-> "de", run |-> "p"]

\* ------------------------------------------------ what a flow's run returns
\* the label produced last by the traversals made so far, 'default' when no
\* node ran
FinalLabel == IF PostEvents = <<>> THEN "default" ELSE Last(PostEvents).label

\* C21: for every flow variant (Flow, BatchFlow, AsyncFlow, AsyncBatchFlow,
\* AsyncParallelBatchFlow) with the default post / postAsync, run / runAsync
\* returns the final transition label, a string: the last label produced by
\* the traversal, or "default" when no node ran.
\* (Refuted by the three batch flows: they hand null to post as the exec
\* result, and the default post returns it.)
C21_RunReturnsFinalLabel ==
  (InFlow /\ pc = "done") =>
    /\ result \in Labels
    /\ result = FinalLabel

\* --------------------------------------------------------- the wiring API
\* the calls made: n1 is wired to n2 or n3, n2 to n3, under these labels
WireLabels == {"default", "success"}
WireTargets(a) ==
  IF a = "n1" THEN {"n2", "n3"} ELSE IF a = "n2" THEN {"n3"} ELSE {}

\* the receiver of a call: n1, or the value the call before it returned
\* (a.next(b).next(c))
Receivers == {"n1"} \cup (IF call = NoCall THEN {} ELSE {call.value})

\* next(node, action = 'default')
DefaultAction == "default"

\* action in this.successors: an own property, or one inherited from
\* Object.prototype
PropertyIn(table, key) == table[key] # NoNode \/ key \in ProtoKeys

\* this.successors[action] = node
PropertySet(table, key, v) == [table EXCEPT ![key] = v]

\* a next that keeps the successor registered first
NextKeepsFirst(tab, a, node, action) ==
  [tab |-> IF tab[heap[a].successors][action] # NoNode THEN tab
           ELSE [tab EXCEPT ![heap[a].successors] = PropertySet(@, action, node)],
   value |-> node,
   warn |-> IF PropertyIn(tab[heap[a].successors], action)
              THEN <<OverwriteWarning(action)>> ELSE <<>>]

\* a next that returns its receiver
NextReturnsThis(tab, a, node, action) ==
  [tab |-> [tab EXCEPT ![heap[a].successors] = PropertySet(@, action, node)],
   value |-> a,
   warn |-> IF PropertyIn(tab[heap[a].successors], action)
              THEN <<OverwriteWarning(action)>> ELSE <<>>]

\* BaseNode.next(node, action) on node a: the successor tables after the
\* call, the value returned, and what was written to console.warn
NextCall(tab, a, node, action) ==
  [tab |-> [tab EXCEPT ![heap[a].successors] = PropertySet(@, action, node)],
   value |-> node,
   warn |-> IF PropertyIn(tab[heap[a].successors], action)
              THEN <<OverwriteWarning(action)>> ELSE <<>>]

\* BaseNode.action(action): new ConditionalTransition(this, action)
Transition(a, action) == [src |-> a, action |-> action]

\* ConditionalTransition.next(target): return this.src.next(target, this.action)
TransitionNext(tab, ct, target) == NextCall(tab, ct.src, target, ct.action)

\* BaseNode.pipe(other): return this.next(other)
Pipe(tab, a, other) == NextCall(tab, a, other, DefaultAction)

\* a flow or a node whose graph is still to be wired: n1 and n3 are test
\* nodes, n2 is a node whose post writes into this.params
InitW ==
  /\ graph = "wired"
  /\ mode \in {"flow", "node"}
  /\ flowKind \in {"Flow", "AsyncFlow"}
  /\ startNode \in {"n1", NoNode}
  /\ mode = "node" => startNode = "n1"
  /\ \E first \in {"Test", "Greeting", "Fragile"}, mixed \in BOOLEAN :
       /\ mixed => flowKind = "Flow" /\ mode = "flow"
       /\ heap = [r \in Refs |->
                    IF r \in Nodes
                      THEN NewNode(r, IF r = "n2" THEN "Tamper" ELSE first,
                                   IF flowKind = "AsyncFlow" \/ (mixed /\ r # "n1")
                                     THEN "AsyncNode" ELSE "Node",
                                   1, "default")
                      ELSE BuiltinObj]
  /\ entry \in {"run", "runAsync"}
  /\ entry = "runAsync" => flowKind = "AsyncFlow"
  /\ mode = "flow" => entry = (IF flowKind = "Flow" THEN "run" ELSE "runAsync")
  /\ succTable = [n \in Nodes |-> NoSucc]
  /\ flowParams = EmptyParams
  /\ shared = FreshShared
  /\ pc = "idle"
  /\ curr = NoNode
  /\ p = EmptyParams
  /\ lastAction = "default"
  /\ prepRes = Undef
  /\ execRes = Undef
  /\ i = 0
  /\ exc = Undef
  /\ error = Undef
  /\ result = "default"
  /\ trace = <<>>
  /\ calls = 0
  /\ steps = 0
  /\ runs = 0
  /\ heapAtRun = heap
  /\ stack = <<>>
  /\ cycles = <<>>
  /\ paramSets = <<>>
  /\ tid = 0
  /\ ctx = <<>>
  /\ call = NoCall
  /\ warnings = <<>>

\* a call of the wiring API while the graph is built: its form, the call
\* a.next(node, action) it stands for, and its outcome r
Wires(form, a, node, action, r) ==
  /\ pc = "idle" /\ runs = 0
  /\ succTable' = r.tab
  /\ warnings' = r.warn
  /\ call' = [form |-> form, recv |-> a, node |-> node, action |-> action,
              before |-> succTable[heap[a].successors], value |-> r.value]
  /\ UNCHANGED <<graph, mode, flowKind, startNode, entry, travVars, cycles, stack,
                 flowParams, heap, shared, pc, curr, p, lastAction, prepRes,
                 execRes, i, exc, error, result, trace, calls, steps, runs,
                 heapAtRun>>

\* a.next(node, action)
CallNext(a, node, action) ==
  Wires("next", a, node, action, NextCall(succTable, a, node, action))

\* a.pipe(other)
CallPipe(a, other) ==
  Wires("pipe", a, other, DefaultAction, Pipe(succTable, a, other))

\* a.action(action).next(target)
CallActionNext(a, action, target) ==
  Wires("action", a, target, action,
        TransitionNext(succTable, Transition(a, action), target))

NextW ==
  \/ \E a \in Receivers : \E node \in WireTargets(a), action \in WireLabels :
       CallNext(a, node, action)
  \/ \E a \in Receivers : \E other \in WireTargets(a) : CallPipe(a, other)
  \/ \E a \in Receivers : \E target \in WireTargets(a), action \in WireLabels :
       CallActionNext(a, action, target)
  \/ runs = 0 /\ RunFlow
  \/ runs = 0 /\ RunNode
  \/ OrchStep
  \/ OrchEnd
  \/ Prep
  \/ ExecInit
  \/ ExecAttempt
  \/ Fallback
  \/ Post
  \/ GetNext

SpecW == InitW /\ [][NextW]_vars

\* ----------------------------------------------------------- wiring claims
\* the last wiring call found a successor registered under its label
Overwrote == call # NoCall /\ call.before[call.action] # NoNode

\* C22: next(n2, L) on a node that already has a successor n1 under L emits
\* a warning, does not throw, leaves the node with n2 as its one successor
\* under L and its successors under every other label as they were; in a
\* later traversal the flow goes from the node, when it returns L, to n2.
C22_OverwriteWithWarning ==
  Overwrote =>
    /\ runs = 0 =>
         /\ warnings = <<OverwriteWarning(call.action)>>
         /\ pc = "idle" /\ error = Undef
    /\ succTable[call.recv] = [call.before EXCEPT ![call.action] = call.node]
    /\ InFlow =>
         \A idx \in 1..Len(trace) :
           (trace[idx].ev = "post" /\ trace[idx].node = call.recv
              /\ trace[idx].label = call.action) =>
             /\ idx < Len(trace) =>
                  trace[idx + 1].ev = "prep" /\ trace[idx + 1].node = call.node
             /\ (idx = Len(trace) /\ pc = "orch") =>
                  curr # NoNode /\ heap[curr].id = call.node

\* n3 replaced n2 under 'success', and the flow went from n1 to n3
C22_Witness ==
  /\ Overwrote /\ call.recv = "n1" /\ call.action = "success"
  /\ call.before["success"] = "n2" /\ call.node = "n3"
  /\ InFlow /\ pc = "done"
  /\ VisitOrder = <<"n1", "n3">>
  /\ PostEvents[1].label = "success"

\* C23: next(target, label) returns target, not the receiver, so
\* a.next(b).next(c) registers b under a's "default" and c under b's
\* "default"; a.action(L).next(t) and a.pipe(t) have the same effect on the
\* successor tables and the same return value as a.next(t, L) and a.next(t).
C23_NextReturnsTarget ==
  call # NoCall =>
    LET tabBefore == [succTable EXCEPT ![call.recv] = call.before]
        asNext == NextCall(tabBefore, call.recv, call.node, call.action)
    IN
    /\ call.value = call.node
    /\ succTable[call.recv][call.action] = call.node
    /\ call.form = "pipe" => call.action = "default"
    /\ succTable = asNext.tab
    /\ call.value = asNext.value
    /\ runs = 0 => warnings = asNext.warn
    /\ call.recv # "n1" => \E L \in WireLabels : succTable["n1"][L] = call.recv

\* n1.pipe(n2).pipe(n3)
C23_Witness ==
  /\ call.form = "pipe" /\ call.recv = "n2" /\ call.node = "n3"
  /\ call.value = "n3"
  /\ succTable["n1"]["default"] = "n2"
  /\ succTable["n2"]["default"] = "n3"

\* C24: run() / runAsync() called on a node executes that node's lifecycle
\* only, once, and returns its label; no registered successor is executed;
\* a warning is written if and only if the node has a registered successor.
C24_DirectRunOnlyThisNode ==
  (mode = "node" /\ runs > 0) =>
    /\ curr = "n1"
    /\ \A idx \in 1..Len(trace) : trace[idx].node = "n1"
    /\ Len(PrepEvents) <= 1 /\ Len(PostEvents) <= 1
    /\ pc = "done" =>
         /\ Len(PrepEvents) = 1 /\ Len(PostEvents) = 1
         /\ Last(trace).ev = "post"
         /\ result = PostEvents[1].label
    /\ (warnings # <<>>) <=> (\E L \in Labels : succTable["n1"][L] # NoNode)
    /\ warnings \in {<<>>, <<NodeRunWarning(EntryClass)>>}

\* runAsync on a node with a successor under the label it returned
C24_Witness ==
  /\ mode = "node" /\ pc = "done" /\ heap["n1"].kind = "AsyncNode"
  /\ succTable["n1"]["success"] = "n2"
  /\ result = "success"
  /\ warnings = <<NodeRunWarning("AsyncNode")>>
  /\ Len(trace) = 3

\* -------------------------------------------------- one lifecycle of a node
\* the value the exec-with-retry cycle of a direct run came to
CycleResult ==
  IF FallbackEvents # <<>> THEN Last(FallbackEvents).out ELSE Last(ExecEvents).out

\* C25: in one lifecycle run of a Node prep is called exactly once, before
\* any exec attempt; every exec attempt, retries included, receives that one
\* prep result and no Shared Context; post is called exactly once, after the
\* final attempt or the fallback, with the Shared Context, the prep result
\* and the exec result; prep is not run again on a retry.
C25_PrepOncePostOnce ==
  DirectSyncRun =>
    /\ Len(PrepEvents) <= 1 /\ Len(PostEvents) <= 1
    /\ trace # <<>> =>
         trace[1].ev = "prep" /\ trace[1].args = <<FreshShared>>
    /\ \A j \in 1..Len(ExecEvents) : ExecEvents[j].args = <<PrepEvents[1].out>>
    /\ \A f \in 1..Len(FallbackEvents) :
         FallbackEvents[f].args = <<PrepEvents[1].out, Last(ExecEvents).out>>
    /\ \A idx \in 1..Len(trace) :
         trace[idx].ev = "post" =>
           /\ idx = Len(trace) /\ idx > 1
           /\ trace[idx - 1].ev \in {"exec", "fallback"} /\ ~trace[idx - 1].threw
           /\ trace[idx].args = <<FreshShared, PrepEvents[1].out, CycleResult>>
    /\ pc = "done" => Len(PrepEvents) = 1 /\ Len(PostEvents) = 1

\* a retry: two exec attempts with the one prep result, then post
C25_Witness ==
  /\ DirectSyncRun /\ K = 2 /\ pc = "done"
  /\ Len(trace) = 4
  /\ trace[2].threw /\ trace[2].args = <<trace[1].out>>
  /\ ~trace[3].threw /\ trace[3].args = <<trace[1].out>>
  /\ trace[4].args = <<FreshShared, trace[1].out, trace[3].out>>

\* ---------------------------------------------- the end of a traversal
\* the traversal of a flat flow has ended because the label of the last post
\* has no successor
EndedUnmatched ==
  /\ FlatFlow /\ pc \in {"orch", "done"} /\ curr = NoNode
  /\ PostEvents # <<>> /\ Last(trace).ev = "post"

\* the labels registered on the node of the last post
LastKeys == {l \in Labels : succTable[Last(PostEvents).node][l] # NoNode}

\* C26 as stated: when a traversal ends because the returned label has no
\* registered successor, a warning is written if and only if the label is
\* not "default".
\* (Refuted both ways: a node with successors that returns an unregistered
\* "default" gets the warning, a node without successors that returns any
\* other label gets none.)
C26_WarningUnlessDefault ==
  EndedUnmatched => (warnings # <<>> <=> Last(PostEvents).label # "default")

\* C26 amended: when a traversal ends because the returned label has no
\* registered successor, the warning is written if and only if the node has
\* at least one successor registered (under other labels), whatever the
\* label is, "default" included; it names the label and the registered ones.
C26_WarningIffOtherSuccessors ==
  EndedUnmatched =>
    warnings = (IF LastKeys # {}
                  THEN <<FlowEndsWarning(Last(PostEvents).label, LastKeys)>>
                  ELSE <<>>)

\* the conditional node returned 'default', which is not among its labels
C26_Witness ==
  /\ graph = "cond" /\ InFlow /\ pc = "done"
  /\ Len(PostEvents) = 1 /\ PostEvents[1].label = "default"
  /\ result = "default"
  /\ warnings = <<FlowEndsWarning("default", {"success", "failure"})>>

\* ------------------------------------------------------- bound parameters
\* C27: the run parameters bound to a node are private to that step: when a
\* node writes into its bound params during its lifecycle (n2's post sets
\* this.params.seen), no node executed later in the same traversal, and no
\* node of another traversal, reads params that show the write.
\* (Refuted within one traversal: _orch builds one object p and binds that
\* same object to every node.)
C27_ParamsPrivateToStep ==
  \A idx \in 1..Len(trace) :
    trace[idx].node # "n2" => "seen" \notin DOMAIN trace[idx].params

\* ------------------------------------------------ the retry cycle by kind
\* what one exec-with-retry cycle of a direct run does, as a function of
\* maxRetries, of which attempts fail and of what the user code returns; the
\* kind of the node does not occur in it
RetryContract ==
  /\ Len(ExecEvents) <= K
  /\ \A j \in 1..Len(ExecEvents) :
       /\ ExecEvents[j].pr = PrepEvents[1].out
       /\ j < Len(ExecEvents) => ExecEvents[j].threw
  /\ (ExecEvents # <<>> /\ Last(trace).ev = "exec") =>
       IF ~Last(trace).threw THEN pc = "post" /\ execRes = Last(trace).out
       ELSE IF Len(ExecEvents) = K THEN pc = "fallback" /\ exc = Last(trace).out
       ELSE pc = "exec"
  /\ Len(FallbackEvents) <= 1
  /\ \A f \in 1..Len(FallbackEvents) :
       /\ Len(ExecEvents) = K /\ Last(ExecEvents).threw
       /\ FallbackEvents[f].pr = PrepEvents[1].out
       /\ FallbackEvents[f].x = Last(ExecEvents).out
       /\ FallbackEvents[f].threw <=> pc = "thrown"
  /\ pc = "thrown" => error = Last(FallbackEvents).out
  /\ \A q \in 1..Len(PostEvents) :
       PostEvents[q].x = (IF ExecEvents = <<>> THEN Undef ELSE CycleResult)

\* C28: for the same maxRetries and the same pattern of failing attempts,
\* AsyncNode's exec-with-retry makes the same number of execAsync calls,
\* calls execFallbackAsync under the same condition and with the same
\* arguments, and yields the same result or error as Node's does with exec
\* and execFallback: both kinds keep the one contract above.
C28_AsyncRetryAsSync ==
  (mode = "node" /\ heap["n1"].kind \in {"Node", "AsyncNode"}) => RetryContract

\* an AsyncNode whose two attempts failed and whose fallback returned
C28_Witness ==
  /\ mode = "node" /\ heap["n1"].kind = "AsyncNode" /\ K = 2 /\ pc = "done"
  /\ Len(ExecEvents) = 2 /\ ExecEvents[2].threw
  /\ FallbackEvents[1].x = ExecEvents[2].out
  /\ PostEvents[1].x = FallbackEvents[1].out
  /\ heap["n1"].curRetry = 0

\* ------------------------------------------------ a flow without a start
\* C29: a Flow constructed without a start node executes no node, leaves the
\* Shared Context as it was handed in, and run returns "default".
C29_NoStartNode ==
  (InFlow /\ startNode = NoNode /\ runs > 0) =>
    /\ trace = <<>> /\ steps = 0 /\ calls = 0
    /\ shared = FreshShared
    /\ error = Undef /\ pc \in {"orch", "done"}
    /\ pc = "done" => result = "default"

\* new AsyncFlow().runAsync({}) has returned
C29_Witness ==
  /\ InFlow /\ startNode = NoNode /\ flowKind = "AsyncFlow"
  /\ pc = "done" /\ result = "default" /\ warnings = <<>>

\* ------------------------------------------------------ the curRetry field
\* C30: for every retrying node variant, while the n-th exec attempt of an
\* exec-with-retry cycle runs (n from 1) the node's curRetry is n-1; it is
\* reset to 0 at the start of each cycle and never exceeds maxRetries-1.
\* (Refuted by AsyncNode: its _exec counts in a local variable and leaves the
\* field at 0.)
C30_CurRetryCountsAttempts ==
  (mode = "node" /\ K >= 1) =>
    /\ \A j \in 1..Len(ExecEvents) : ExecEvents[j].cur = j - 1
    /\ pc = "exec" => heap[curr].curRetry = Len(ExecEvents)
    /\ heap["n1"].curRetry <= K - 1

\* ------------------------------------------------------------ C31 .. C40
WaitEvents == SelectSeq(trace, LAMBDA e : e.ev = "wait")
FailedExecs == SelectSeq(trace, LAMBDA e : e.ev = "exec" /\ e.threw)

\* a node constructed with maxRetries = K >= 1 and wait > 0, run directly
WaitingRun == mode = "node" /\ graph = "cond" /\ K >= 1 /\ heap["n1"].wait > 0

\* C31: in an exec-with-retry cycle with wait > 0 a wait occurs after each
\* failed attempt except the last one and nowhere else: a wait follows a
\* failed attempt and is followed by the next attempt, a failed attempt is
\* followed by a wait unless it was the K-th, the K-th failure is followed by
\* the fallback at once, and K failures have produced exactly K-1 waits.
C31_WaitBetweenAttemptsOnly ==
  WaitingRun =>
    /\ \A idx \in 1..Len(trace) :
         /\ trace[idx].ev = "wait" =>
              /\ idx > 1 /\ trace[idx - 1].ev = "exec" /\ trace[idx - 1].threw
              /\ idx < Len(trace) => trace[idx + 1].ev = "exec"
         /\ (trace[idx].ev = "exec" /\ trace[idx].threw /\ pc # "fallback"
               /\ idx = Len(trace)) => FALSE
         /\ (trace[idx].ev = "exec" /\ trace[idx].threw /\ idx < Len(trace)) =>
              trace[idx + 1].ev = (IF Len(SelectSeq(SubSeq(trace, 1, idx),
                                                    LAMBDA e : e.ev = "exec")) = K
                                     THEN "fallback" ELSE "wait")
         /\ trace[idx].ev = "fallback" => trace[idx - 1].ev = "exec"
    /\ Len(WaitEvents) = Len(FailedExecs) - (IF Len(FailedExecs) = K THEN 1 ELSE 0)
    /\ Len(ExecEvents) <= K

\* the node has failed K = 2 times, waited once in between, and
\* reached the fallback
C31_Witness ==
  /\ WaitingRun /\ K = 2
  /\ Len(FailedExecs) = 2 /\ Len(WaitEvents) = 1
  /\ Last(trace).ev = "fallback"

\* the items whose _exec call has started and not yet returned or thrown
InProgress == {j \in 1..Len(cycles) : cycles[j].st \in {"run", "fb"}}

\* the entries of the history that belong to an item's exec-with-retry cycle
CycleEvents ==
  SelectSeq(trace, LAMBDA e : e.ev \in {"exec", "wait", "fallback"})

\* C32: in AsyncBatchNode the cycle of item j+1 does not start (no execAsync
\* call is made for it) until the cycle of item j, with its retries, waits
\* and fallback, has completed; at most one item is in progress at any time.
C32_AsyncBatchOneItemAtATime ==
  BatchKind = "AsyncBatchNode" =>
    /\ \A j \in 2..Len(cycles) : cycles[j].st # "new" => cycles[j - 1].st = "done"
    /\ Cardinality(InProgress) <= 1
    /\ \A a, b \in 1..Len(CycleEvents) :
         a < b => CycleEvents[a].pr[2] <= CycleEvents[b].pr[2]
    /\ \A j \in 1..Len(cycles) :
         ItemExecs(j) # <<>> => \A m \in 1..(j - 1) : cycles[m].st = "done"

\* item 1 has failed twice with a wait in between, its fallback has returned,
\* and only then the first attempt for item 2 has been made
C32_Witness ==
  /\ BatchKind = "AsyncBatchNode" /\ K = 2
  /\ Len(ItemExecs(1)) = 2 /\ ItemFallbacks(1) # <<>> /\ WaitEvents # <<>>
  /\ Len(ItemExecs(2)) = 1
  /\ Last(trace).pr = Item(2)

\* the exec attempts and fallback calls made for the j-th item, in order
ItemCalls(j) ==
  SelectSeq(trace, LAMBDA e : e.ev \in {"exec", "fallback"} /\ e.pr = Item(j))

\* the calls c made for one item are what one counter of its own allows: the
\* t-th is an exec attempt with the counter at t-1, made after t-1 failures,
\* for t up to K; a fallback call comes after K failed attempts and is the
\* last call; st is the state of the item's _exec call
CountsAlone(c, st) ==
  /\ \A t \in 1..Len(c) :
       IF c[t].ev = "exec"
         THEN t <= K /\ c[t].cur = t - 1 /\ (t < Len(c) => c[t].threw)
         ELSE t = K + 1 /\ t = Len(c)
  /\ st = "fb" <=> (Len(c) = K /\ c[K].ev = "exec" /\ c[K].threw)
  /\ Len(c) = K + 1 => st \in {"done", "failed"}

\* C33: in AsyncParallelBatchNode each item has its own attempt counter:
\* under any interleaving the t-th attempt of an item runs with the counter
\* at t-1 whatever its siblings did, an item is attempted again only after a
\* failure and at most maxRetries times, and an item that failed maxRetries
\* times gets exactly one fallback call, after its last attempt.
C33_ParallelItemsCountAlone ==
  (BatchKind = "AsyncParallelBatchNode" /\ K >= 1) =>
    \A j \in 1..Len(cycles) : CountsAlone(ItemCalls(j), cycles[j].st)

\* item 1 failed once; then item 2 failed twice and got its fallback; then
\* item 1 made its second attempt, with its own counter at 1
C33_Witness ==
  /\ BatchKind = "AsyncParallelBatchNode" /\ K = 2 /\ Len(cycles) = 2
  /\ Len(trace) = 6
  /\ trace[2].pr = Item(1) /\ trace[2].ev = "exec" /\ trace[2].threw
  /\ trace[3].pr = Item(2) /\ trace[4].pr = Item(2)
  /\ trace[5].pr = Item(2) /\ trace[5].ev = "fallback"
  /\ trace[6].pr = Item(1) /\ trace[6].ev = "exec" /\ trace[6].cur = 1
  /\ trace[6].threw /\ cycles[1].st = "fb"

\* C34: once runAsync of an AsyncParallelBatchFlow (or of an
\* AsyncParallelBatchNode) has settled, no phase of any traversal (item)
\* started by that run executes afterwards, so that the run writes nothing
\* more to the Shared Context: the fallback whose throw rejects the run is
\* the last entry of the run's history.
\* (Refuted: Promise.all rejects with the first rejection and leaves the
\* sibling traversals running, up to their post.)
C34_NothingAfterSettled ==
  (Parallel /\ heap["n1"].kind = "AsyncNode") =>
    \A idx \in 1..Len(trace) :
      (trace[idx].ev = "fallback" /\ trace[idx].threw) => idx = Len(trace)

\* C35: for every batched node variant, when prep returns undefined (the
\* default prep), exec is called zero times, no error is raised, and post
\* receives an empty sequence.
\* (Refuted by AsyncBatchNode and AsyncParallelBatchNode, whose _exec has no
\* "|| []".)
C35_UndefinedPrepIsEmptyBatch ==
  (BatchKind \in BatchKinds /\ heap["n1"].cls = "Plain" /\ PrepEvents # <<>>) =>
    /\ ExecEvents = <<>>
    /\ pc # "thrown"
    /\ pc = "done" => PostEvents # <<>> /\ PostEvents[1].x = <<>>

\* the node registered under 'default' behind the node of an event
DefaultSuccessorOf(e) == succTable[heap[e.node].successors]["default"]

\* C36: when a node's post returns undefined, null or the empty string, the
\* flow goes on with the successor registered under "default", if there is
\* one, as if "default" had been returned; and if there is none the
\* traversal ends there and the flow returns the raw value post returned.
C36_FalsyLabelSelectsDefault ==
  (InFlow /\ graph = "wired") =>
    /\ \A idx \in 1..(Len(trace) - 1) :
         (trace[idx].ev = "post" /\ trace[idx].label \in Falsy) =>
           /\ trace[idx + 1].ev = "prep"
           /\ trace[idx + 1].node = DefaultSuccessorOf(trace[idx])
    /\ (pc = "orch" /\ trace # <<>> /\ Last(trace).ev = "post"
          /\ Last(trace).label \in Falsy) =>
         IF DefaultSuccessorOf(Last(trace)) = NoNode
           THEN curr = NoNode
           ELSE curr # NoNode /\ heap[curr].id = DefaultSuccessorOf(Last(trace))
    /\ (pc = "done" /\ PostEvents # <<>> /\ Last(PostEvents).label \in Falsy) =>
         /\ result = Last(PostEvents).label
         /\ DefaultSuccessorOf(Last(PostEvents)) = NoNode

\* the first node's post returned nothing and the flow went on with its
\* 'default' successor, whose post returned '': the flow has returned ''
C36_Witness ==
  /\ InFlow /\ graph = "wired" /\ pc = "done"
  /\ Len(PostEvents) = 2
  /\ PostEvents[1].node = "n1" /\ PostEvents[1].label = NoLabel
  /\ DefaultSuccessorOf(PostEvents[1]) = "n3"
  /\ PostEvents[2].node = "n3" /\ PostEvents[2].label = ""
  /\ result = ""

\* C37: in every lifecycle run of a Node or AsyncNode, whatever maxRetries
\* it was constructed with, exec is invoked at least once before post is
\* called: what precedes a post in the history is an exec attempt of the same
\* node, or the fallback that followed one.
\* (Refuted with maxRetries = 0: the loop body never runs.)
C37_ExecBeforePost ==
  \A idx \in 1..Len(trace) :
    trace[idx].ev = "post" =>
      /\ idx > 1
      /\ trace[idx - 1].ev \in {"exec", "fallback"}
      /\ trace[idx - 1].node = trace[idx].node

\* C38: an error thrown by a node's prep or post is outside the retry
\* policy: the phase is not called again, execFallback is not invoked for
\* it, and it propagates out of run / Flow.run, which throws that error; the
\* traversal ends at that node: the throwing call is the last entry of the
\* history.
C38_PrepPostThrowPropagates ==
  graph = "wired" =>
    \A idx \in 1..Len(trace) :
      (trace[idx].ev \in {"prep", "post"} /\ trace[idx].threw) =>
        /\ idx = Len(trace)
        /\ pc = "thrown"
        /\ error = trace[idx].out
        /\ trace[idx].ev = "post" => shared[trace[idx].node] = Undef

\* the second node of a flow has thrown from its post, after its exec
\* succeeded and after the first node's post wrote to the Shared Context
C38_Witness ==
  /\ graph = "wired" /\ InFlow
  /\ Len(trace) = 6
  /\ trace[3].ev = "post" /\ trace[3].node = "n1" /\ shared["n1"] # Undef
  /\ trace[5].ev = "exec" /\ ~trace[5].threw
  /\ trace[6].ev = "post" /\ trace[6].threw /\ trace[6].node = "n3"
  /\ error = PhaseErr("n3", "post")

\* the run has gone through the synchronous path: run() on a node, or
\* Flow.run
SyncPath == graph = "wired" /\ entry = "run" /\ runs > 0

\* the posts of node n that have returned
PostsDone(n) ==
  SelectSeq(trace, LAMBDA e : e.ev = "post" /\ ~e.threw /\ e.node = n)

\* in a wired graph the Shared Context holds, under a node's key, the exec
\* result its post stored (the marking class stores nothing), and nothing else
HoldsThePostsWrites ==
  \A k \in Keys :
    shared[k] = (IF k \in Nodes /\ heap[k].cls # "Tamper" /\ PostsDone(k) # <<>>
                   THEN Last(PostsDone(k)).x ELSE Undef)

EngineStep ==
  \/ OrchStep
  \/ OrchEnd
  \/ Prep
  \/ ExecInit
  \/ ExecAttempt
  \/ Fallback
  \/ Post
  \/ GetNext

\* the wired graphs (all of them acyclic) with a run whose steps are taken
SpecWF == SpecW /\ WF_vars(EngineStep)

\* the nodes registered behind node n, under any label
SuccessorsOf(n) == {succTable[n][l] : l \in Labels} \ {NoNode}

\* the nodes that can be reached from the nodes in S along the wiring
RECURSIVE ReachableFrom(_)
ReachableFrom(S) ==
  LET T == S \cup UNION {SuccessorsOf(n) : n \in S}
  IN IF T = S THEN S ELSE ReachableFrom(T)

\* the nodes reachable from the flow's start node
Reachable == IF startNode = NoNode THEN {} ELSE ReachableFrom({startNode})

\* no more node executions than reachable nodes, each node at most once and
\* only reachable ones
EachReachableNodeOnce ==
  /\ steps <= Cardinality(Reachable)
  /\ \A n \in Nodes : Len(EventsOf("prep", n)) <= 1
  /\ \A idx \in 1..Len(trace) : trace[idx].node \in Reachable

\* C40: if the wired graph reachable from the start node is acyclic and
\* every phase terminates, Flow.run terminates (it returns or throws) after
\* executing at most as many nodes as are reachable from the start node,
\* each at most once.
C40_AcyclicFlowTerminates ==
  /\ []((InFlow /\ graph = "wired") => EachReachableNodeOnce)
  /\ (InFlow /\ graph = "wired" /\ pc # "idle") ~> Ended

\* a flow over three reachable nodes has run each of them once and returned
C40_Witness ==
  /\ InFlow /\ graph = "wired" /\ pc = "done"
  /\ Reachable = {"n1", "n2", "n3"}
  /\ steps = 3
  /\ VisitOrder = <<"n1", "n2", "n3">>

====
